---------------------------- MODULE Spec2Model ----------------------------
(***************************************************************************)
(* A model of music2bin: the MusicBin binary codec (bin_format encoder,    *)
(* bin_decoder), the duration arithmetic of ir/notation.rs and the         *)
(* per-measure voice checker of ir/measure_checker.rs.                     *)
(*                                                                         *)
(* Enumerations are modelled by their discriminants (`as u8`), and         *)
(* FromPrimitive::from_u8 by a range test on the discriminant.             *)
(***************************************************************************)
EXTENDS Integers, Sequences, FiniteSets, TLC

VARIABLES
    pc,             \* position in the pipeline that runs
    complete_part,  \* the element sequence of a part (MusicalPart.elems)
    w,              \* the bytes MusicEncoder has written to its writer
    data,           \* MusicDecoder.data: the bytes read
    parsed,         \* the result of MusicDecoder::parse_data
    divisions,      \* ticks per crochet (MusicalPart.divisions, quarter_division)
    voices,         \* MusicalPart.voices
    sig,            \* the time signature in force: beats and beat_type
    tmod,           \* the time modification in force (Option<TimeModification>)
    note,           \* the NoteData whose duration is taken
    ticks,          \* a numeric duration, in ticks
    found,          \* the result of NoteData::from_numeric_duration
    measure,        \* MeasureChecker.measure
    cur_init_measure_idx, \* MusicalPart.cur_init_measure_idx
    measure_checker,      \* MusicalPart.measure_checker, but for its measure
    part_ids,       \* PartMap.part_ids
    parts,          \* PartMap.parts
    remove_cur_part,      \* the flag of multipartxml_to_ir
    res,            \* the Result the last call returned
    flushes,        \* the calls of MusicEncoder::flush so far
    cur_phrase_dyn, \* MusicalPart::cur_phrase_dyn
    ir_part_idx     \* multipartxml_to_ir: the parts of ir_parts gone through

codec_vars == <<w, data, parsed>>
ir_vars == <<divisions, voices, sig, tmod, note, ticks, found, measure>>
part_vars == <<cur_init_measure_idx, measure_checker, part_ids, parts,
               remove_cur_part, res, flushes,
               cur_phrase_dyn, ir_part_idx>>

\* Option::None of a FromPrimitive::from_u8 conversion (Some(v) is v itself)
None == -1

-----------------------------------------------------------------------------
(* Bounds of the model *)

\* the longest element sequence that is encoded
MaxElems == 2
\* the most 4-byte records of a raw byte stream
MaxRecs == 2

-----------------------------------------------------------------------------
(* Enumerations of ir/notation.rs: the number of variants of each enum, the *)
(* discriminants being 0 .. count-1                                         *)

KeySignatureCount == 12
NoteConnectionCount == 3
SlurConnectionCount == 3
MeasureStartEndCount == 4
ArticulationCount == 8
ArpeggiateCount == 2
ChordCount == 2
TupletNumberCount == 4
TupletStartStopCount == 3
TupletActualCount == 17
TupletNormalCount == 9
SpecialNoteCount == 4
PhraseDynamicsCount == 15
EndingCount == 4
TrillCount == 3
DalSegnoCount == 8
RhythmTypeCount == 8
BeatsCount == 7
BeatTypeCount == 4
VoiceCount == 4
MusicTagIdentifiersCount == 4

\* Tempo::MAX_SUPPORTED_RAW_TEMPO
MAX_SUPPORTED_RAW_TEMPO == 127
\* NumericPitchRest::MAX_NOTE_VALUE
MAX_NOTE_VALUE == 97
\* bin_format::MUSIC_ELEMENT_LENGTH
MUSIC_ELEMENT_LENGTH == 4
\* MusicBinHeader::MUSICBIN_MAGIC_NUMBER, b"MuBi"
MUSICBIN_MAGIC_NUMBER == <<77, 117, 66, 105>>

\* FromPrimitive::from_u8 of an enum with `count` variants numbered from 0
FromU8(v, count) == IF v < count THEN v ELSE None

\* Tempo::new_from_raw
TempoNewFromRaw(raw_tempo) ==
    [raw |-> IF raw_tempo > MAX_SUPPORTED_RAW_TEMPO THEN MAX_SUPPORTED_RAW_TEMPO ELSE raw_tempo]

\* Tempo::get_raw
TempoGetRaw(t) == t.raw

\* Tempo::get_actual: beats per minute
TempoGetActual(t) == (t.raw * 2) + 20

Rest == [kind |-> "Rest"]
Pitch(v) == [kind |-> "Pitch", v |-> v]

\* NumericPitchRest::new_from_numeric
NewFromNumeric(note_val) == IF note_val = 0 THEN Rest ELSE Pitch(note_val)

\* NumericPitchRest::get_numeric_value
GetNumericValue(n) == IF n.kind = "Rest" THEN 0 ELSE n.v

-----------------------------------------------------------------------------
(* MusicElement and its four variants *)

MeasureInitializer(beats, beat_type, key_sig, tempo) ==
    [elem |-> "MeasureInit", beats |-> beats, beat_type |-> beat_type,
     key_sig |-> key_sig, tempo |-> tempo]

MeasureMetaData(start_end, ending, dal_segno) ==
    [elem |-> "MeasureMeta", start_end |-> start_end, ending |-> ending,
     dal_segno |-> dal_segno]

\* NoteData::default(): a crochet rest on voice One
NoteDataDefault ==
    [elem |-> "NoteRest", note_rest |-> Rest, phrase_dynamics |-> 0, note_type |-> 5,
     dotted |-> FALSE, arpeggiate |-> 0, special_note |-> 0, articulation |-> 0,
     trill |-> 0, ties |-> 0, chord |-> 0, slur |-> 0, voice |-> 0]

TupletData(start_stop, tuplet_number, actual_notes, normal_notes, dotted) ==
    [elem |-> "Tuplet", start_stop |-> start_stop, tuplet_number |-> tuplet_number,
     actual_notes |-> actual_notes, normal_notes |-> normal_notes, dotted |-> dotted]

-----------------------------------------------------------------------------
(* The bitfield! structs of bin_format/bin_encoder.rs: a record is a [u8; 4] *)
(* buffer and a field is a range of its bits, bit 0 being the most           *)
(* significant bit of byte 0 (MSB0).                                         *)

ZeroData == <<0, 0, 0, 0>>

Pow2(n) == 2 ^ n

\* bit i (MSB0) of a byte buffer
BitAt(buf, i) == (buf[(i \div 8) + 1] \div Pow2(7 - (i % 8))) % 2

\* bitfield's set_bit_range(msb, lsb, value) on an MSB0 [u8] buffer: the field
\* takes the low (msb - lsb + 1) bits of value, bit lsb the most significant;
\* higher bits of value are shifted out and lost
SetBitRange(buf, lsb, msb, value) ==
    LET bit(i) == IF lsb <= i /\ i <= msb
                  THEN (value \div Pow2(msb - i)) % 2
                  ELSE BitAt(buf, i)
        byte(k) == bit(8*k) * 128 + bit(8*k+1) * 64 + bit(8*k+2) * 32 + bit(8*k+3) * 16
                 + bit(8*k+4) * 8 + bit(8*k+5) * 4 + bit(8*k+6) * 2 + bit(8*k+7)
    IN <<byte(0), byte(1), byte(2), byte(3)>>

\* bool as the one-bit value written by set_dotted / set_chord / set_arpeggiation
BoolBit(b) == IF b THEN 1 ELSE 0

\* MusicEncoder::insert_measure_initializer: the 4 bytes written
InsertMeasureInitializer(m) ==
    LET d0 == SetBitRange(ZeroData, 0, 1, 0)
        d1 == SetBitRange(d0, 2, 4, m.beats)
        d2 == SetBitRange(d1, 5, 6, m.beat_type)
        d3 == SetBitRange(d2, 7, 10, m.key_sig)
    IN SetBitRange(d3, 11, 17, TempoGetRaw(m.tempo))

\* insert_measure_metadata with the ending field one bit too far right
InsertMeasureMetadataShifted(m) ==
    LET d0 == SetBitRange(ZeroData, 0, 1, 1)
        d1 == SetBitRange(d0, 2, 3, m.start_end)
        d2 == SetBitRange(d1, 5, 6, m.ending)
    IN SetBitRange(d2, 6, 8, m.dal_segno)

\* MusicEncoder::insert_measure_metadata
InsertMeasureMetadata(m) ==
    LET d0 == SetBitRange(ZeroData, 0, 1, 1)
        d1 == SetBitRange(d0, 2, 3, m.start_end)
        d2 == SetBitRange(d1, 4, 5, m.ending)
    IN SetBitRange(d2, 6, 8, m.dal_segno)

\* MusicEncoder::insert_note_data
InsertNoteData(n) ==
    LET d0 == SetBitRange(ZeroData, 0, 1, 2)
        d1 == SetBitRange(d0, 2, 8, GetNumericValue(n.note_rest))
        d2 == SetBitRange(d1, 9, 12, n.phrase_dynamics)
        d3 == SetBitRange(d2, 13, 15, n.note_type)
        d4 == SetBitRange(d3, 16, 16, BoolBit(n.dotted))
        d5 == SetBitRange(d4, 17, 17, n.arpeggiate)
        d6 == SetBitRange(d5, 18, 19, n.special_note)
        d7 == SetBitRange(d6, 20, 22, n.articulation)
        d8 == SetBitRange(d7, 23, 24, n.trill)
        d9 == SetBitRange(d8, 25, 26, n.ties)
        d10 == SetBitRange(d9, 27, 27, n.chord)
        d11 == SetBitRange(d10, 28, 29, n.slur)
    IN SetBitRange(d11, 30, 31, n.voice)

\* MusicEncoder::insert_tuplet_data
InsertTupletData(t) ==
    LET d0 == SetBitRange(ZeroData, 0, 1, 3)
        d1 == SetBitRange(d0, 2, 3, t.start_stop)
        d2 == SetBitRange(d1, 4, 5, t.tuplet_number)
        d3 == SetBitRange(d2, 6, 9, t.actual_notes)
        d4 == SetBitRange(d3, 10, 13, t.normal_notes)
    IN SetBitRange(d4, 14, 14, BoolBit(t.dotted))

\* (length as u32).to_le_bytes()
ToLeBytes(n) ==
    <<n % 256, (n \div 256) % 256, (n \div 65536) % 256, (n \div 16777216) % 256>>

\* MusicEncoder::create_header: the 8 bytes written
CreateHeader(length) == MUSICBIN_MAGIC_NUMBER \o ToLeBytes(length)

\* the match of ir_to_bin on one element
EncodeElement(e) ==
    CASE e.elem = "MeasureInit" -> InsertMeasureInitializer(e)
      [] e.elem = "MeasureMeta" -> InsertMeasureMetadata(e)
      [] e.elem = "NoteRest" -> InsertNoteData(e)
      [] e.elem = "Tuplet" -> InsertTupletData(e)

RECURSIVE EncodeAll(_)
EncodeAll(es) ==
    IF es = <<>> THEN <<>> ELSE EncodeElement(Head(es)) \o EncodeAll(Tail(es))

\* ir_to_bin: everything written for a part (no write fails here)
IrToBinBytes(part) ==
    CreateHeader(Len(part) * MUSIC_ELEMENT_LENGTH) \o EncodeAll(part)

-----------------------------------------------------------------------------
(* The nom parsers of bin_decoder.rs.  A parser result is                    *)
(*   [res |-> "Ok", rest |-> remaining input, out |-> value],                *)
(*   [res |-> "Error"]       (Err::Error: recoverable, ends many0), or       *)
(*   [res |-> "Incomplete"]  (Err::Incomplete of the streaming bit parsers). *)

ParseOk(rest, out) == [res |-> "Ok", rest |-> rest, out |-> out]
ParseError == [res |-> "Error"]
ParseIncomplete == [res |-> "Incomplete"]

\* nom::bits::streaming::take(n) at bit offset off: the n bits, most
\* significant first
TakeBits(input, off, n) ==
    LET F[k \in 0..n] == IF k = 0 THEN 0 ELSE F[k-1] * 2 + BitAt(input, off + k - 1)
    IN F[n]

\* the suffix of a byte sequence from index n+1 on
Drop(input, n) == SubSeq(input, n + 1, Len(input))

\* parse_measure_init with key_sig and beat_type read in the other order
ParseMeasureInitFieldsKeyFirst(input) ==
    LET beats == FromU8(TakeBits(input, 2, 3), BeatsCount)
        key_sig == FromU8(TakeBits(input, 5, 4), KeySignatureCount)
        beat_type == FromU8(TakeBits(input, 9, 2), BeatTypeCount)
        tempo == TempoNewFromRaw(TakeBits(input, 11, 7))
    IN IF None \in {FromU8(TakeBits(input, 0, 2), MusicTagIdentifiersCount),
                    beats, beat_type, key_sig}
       THEN ParseError
       ELSE ParseOk(Drop(input, 4), MeasureInitializer(beats, beat_type, key_sig, tempo))

\* the fields of parse_measure_init, after its tuple of take_bits
ParseMeasureInitFields(input) ==
    LET beats == FromU8(TakeBits(input, 2, 3), BeatsCount)
        beat_type == FromU8(TakeBits(input, 5, 2), BeatTypeCount)
        key_sig == FromU8(TakeBits(input, 7, 4), KeySignatureCount)
        tempo == TempoNewFromRaw(TakeBits(input, 11, 7))
    IN IF None \in {FromU8(TakeBits(input, 0, 2), MusicTagIdentifiersCount),
                    beats, beat_type, key_sig}
       THEN ParseError
       ELSE ParseOk(Drop(input, 4), MeasureInitializer(beats, beat_type, key_sig, tempo))

\* the fields of parse_measure_meta
ParseMeasureMetaFields(input) ==
    LET start_end == FromU8(TakeBits(input, 2, 2), MeasureStartEndCount)
        ending == FromU8(TakeBits(input, 4, 2), EndingCount)
        dal_segno == FromU8(TakeBits(input, 6, 3), DalSegnoCount)
    IN IF None \in {FromU8(TakeBits(input, 0, 2), MusicTagIdentifiersCount),
                    start_end, ending, dal_segno}
       THEN ParseError
       ELSE ParseOk(Drop(input, 4), MeasureMetaData(start_end, ending, dal_segno))

\* parse_note_data_rest with the articulation field read one bit late
ParseNoteDataRestFieldsLate(input) ==
    LET V(off, n, count) == FromU8(TakeBits(input, off, n), count)
    IN IF None \in {V(0, 2, MusicTagIdentifiersCount), V(9, 4, PhraseDynamicsCount),
                    V(13, 3, RhythmTypeCount), V(17, 1, ArpeggiateCount),
                    V(18, 2, SpecialNoteCount), V(21, 2, ArticulationCount),
                    V(23, 2, TrillCount), V(25, 2, NoteConnectionCount),
                    V(27, 1, ChordCount), V(28, 2, SlurConnectionCount),
                    V(30, 2, VoiceCount)}
       THEN ParseError
       ELSE ParseOk(Drop(input, 4),
                    [elem |-> "NoteRest", note_rest |-> NewFromNumeric(TakeBits(input, 2, 7)),
                     phrase_dynamics |-> V(9, 4, PhraseDynamicsCount),
                     note_type |-> V(13, 3, RhythmTypeCount),
                     dotted |-> TakeBits(input, 16, 1) # 0,
                     arpeggiate |-> V(17, 1, ArpeggiateCount),
                     special_note |-> V(18, 2, SpecialNoteCount),
                     articulation |-> V(21, 2, ArticulationCount),
                     trill |-> V(23, 2, TrillCount), ties |-> V(25, 2, NoteConnectionCount),
                     chord |-> V(27, 1, ChordCount), slur |-> V(28, 2, SlurConnectionCount),
                     voice |-> V(30, 2, VoiceCount)])

\* the fields of parse_note_data_rest
ParseNoteDataRestFields(input) ==
    LET note_rest == NewFromNumeric(TakeBits(input, 2, 7))
        phrase_dynamics == FromU8(TakeBits(input, 9, 4), PhraseDynamicsCount)
        rhythm_value == FromU8(TakeBits(input, 13, 3), RhythmTypeCount)
        dotted == TakeBits(input, 16, 1) # 0
        arpeggiate == FromU8(TakeBits(input, 17, 1), ArpeggiateCount)
        special_note == FromU8(TakeBits(input, 18, 2), SpecialNoteCount)
        articulation == FromU8(TakeBits(input, 20, 3), ArticulationCount)
        trill == FromU8(TakeBits(input, 23, 2), TrillCount)
        ties == FromU8(TakeBits(input, 25, 2), NoteConnectionCount)
        chord == FromU8(TakeBits(input, 27, 1), ChordCount)
        slur == FromU8(TakeBits(input, 28, 2), SlurConnectionCount)
        voice == FromU8(TakeBits(input, 30, 2), VoiceCount)
    IN IF None \in {FromU8(TakeBits(input, 0, 2), MusicTagIdentifiersCount),
                    phrase_dynamics, rhythm_value, arpeggiate, special_note,
                    articulation, trill, ties, chord, slur, voice}
       THEN ParseError
       ELSE ParseOk(Drop(input, 4),
                    [elem |-> "NoteRest", note_rest |-> note_rest,
                     phrase_dynamics |-> phrase_dynamics, note_type |-> rhythm_value,
                     dotted |-> dotted, arpeggiate |-> arpeggiate,
                     special_note |-> special_note, articulation |-> articulation,
                     trill |-> trill, ties |-> ties, chord |-> chord, slur |-> slur,
                     voice |-> voice])

\* parse_tuplet_data with a 3-bit tuplet_number and 16 reserved bits
ParseTupletDataFieldsWide(input) ==
    LET start_stop == FromU8(TakeBits(input, 2, 2), TupletStartStopCount)
        tuplet_number == FromU8(TakeBits(input, 4, 3), TupletNumberCount)
        actual_notes == FromU8(TakeBits(input, 7, 4), TupletActualCount)
        normal_notes == FromU8(TakeBits(input, 11, 4), TupletNormalCount)
        dotted == TakeBits(input, 15, 1) # 0
    IN IF None \in {FromU8(TakeBits(input, 0, 2), MusicTagIdentifiersCount),
                    start_stop, tuplet_number, actual_notes, normal_notes}
       THEN ParseError
       ELSE ParseOk(Drop(input, 4),
                    TupletData(start_stop, tuplet_number, actual_notes, normal_notes, dotted))

\* the fields of parse_tuplet_data
ParseTupletDataFields(input) ==
    LET start_stop == FromU8(TakeBits(input, 2, 2), TupletStartStopCount)
        tuplet_number == FromU8(TakeBits(input, 4, 2), TupletNumberCount)
        actual_notes == FromU8(TakeBits(input, 6, 4), TupletActualCount)
        normal_notes == FromU8(TakeBits(input, 10, 4), TupletNormalCount)
        dotted == TakeBits(input, 14, 1) # 0
    IN IF None \in {FromU8(TakeBits(input, 0, 2), MusicTagIdentifiersCount),
                    start_stop, tuplet_number, actual_notes, normal_notes}
       THEN ParseError
       ELSE ParseOk(Drop(input, 4),
                    TupletData(start_stop, tuplet_number, actual_notes, normal_notes, dotted))

\* parse_measure_init / parse_measure_meta / parse_note_data_rest /
\* parse_tuplet_data: each takes 32 bits with streaming take_bits, which is
\* Incomplete when the input holds fewer, then converts the fields
ParseMeasureInit(input) ==
    IF Len(input) < 4 THEN ParseIncomplete ELSE ParseMeasureInitFields(input)
ParseMeasureMeta(input) ==
    IF Len(input) < 4 THEN ParseIncomplete ELSE ParseMeasureMetaFields(input)
ParseNoteDataRest(input) ==
    IF Len(input) < 4 THEN ParseIncomplete ELSE ParseNoteDataRestFields(input)
ParseTupletData(input) ==
    IF Len(input) < 4 THEN ParseIncomplete ELSE ParseTupletDataFields(input)

\* parse_id: the 2-bit tag, the input left unconsumed
ParseId(input) == FromU8(TakeBits(input, 0, 2), MusicTagIdentifiersCount)

\* music_element
MusicElementParser(input) ==
    IF input = <<>>
    THEN ParseError       \* ErrorKind::Eof: the expected end of parsing
    ELSE CASE ParseId(input) = 0 -> ParseMeasureInit(input)
           [] ParseId(input) = 1 -> ParseMeasureMeta(input)
           [] ParseId(input) = 2 -> ParseNoteDataRest(input)
           [] ParseId(input) = 3 -> ParseTupletData(input)

\* u32::from_le_bytes
FromLeBytes(b) == b[1] + 256 * b[2] + 65536 * b[3] + 16777216 * b[4]

\* header_parser without its magic number test
HeaderParserAnyMagic(input) ==
    IF Len(input) < 8 THEN ParseError
    ELSE ParseOk(Drop(input, 8), [length |-> FromLeBytes(SubSeq(input, 5, 8))])

\* header_parser: two complete take_bytes(4), then the magic number test
HeaderParser(input) ==
    IF Len(input) < 8 THEN ParseError
    ELSE IF SubSeq(input, 1, 4) # MUSICBIN_MAGIC_NUMBER THEN ParseError
    ELSE ParseOk(Drop(input, 8), [length |-> FromLeBytes(SubSeq(input, 5, 8))])

\* nom::multi::many0(music_element): collects elements until the parser
\* returns Err::Error; any other error is passed on
RECURSIVE Many0(_, _)
Many0(input, acc) ==
    LET r == MusicElementParser(input)
    IN CASE r.res = "Error" -> ParseOk(input, acc)
         [] r.res = "Incomplete" -> ParseIncomplete
         [] r.res = "Ok" ->
              IF Len(r.rest) = Len(input) THEN ParseError
              ELSE Many0(r.rest, Append(acc, r.out))

\* parse_music_bin: all_consuming(tuple((header_parser, many0(music_element))))
ParseMusicBin(input, size) ==
    IF Len(input) < size THEN ParseIncomplete
    ELSE IF size < 1 THEN ParseIncomplete
    ELSE LET h == HeaderParser(input)
         IN IF h.res # "Ok" THEN h
            ELSE LET m == Many0(h.rest, <<>>)
                 IN IF m.res # "Ok" THEN m
                    ELSE IF m.rest # <<>> THEN ParseError
                    ELSE ParseOk(m.rest, [header |-> h.out, elements |-> m.out])

\* MusicBinHeader::get_chunk_length
GetChunkLength(header) == header.length \div MUSIC_ELEMENT_LENGTH

DecodingError == [ok |-> FALSE]
Decoded(elements) == [ok |-> TRUE, elements |-> elements]

\* MusicDecoder::parse_data
ParseData(bytes) ==
    LET r == ParseMusicBin(bytes, Len(bytes))
    IN IF r.res = "Ok"
       THEN IF GetChunkLength(r.out.header) # Len(r.out.elements)
            THEN DecodingError
            ELSE Decoded(r.out.elements)
       ELSE DecodingError

-----------------------------------------------------------------------------
(* Duration arithmetic (ir/notation.rs).  Option<TimeModification> is        *)
(* [some |-> FALSE] or [some |-> TRUE, actual_notes |-> a, normal_notes |-> n] *)

\* AsU32 for TupletActual, AsU32 for TupletNormal
TupletActualAsU32(a) ==
    <<2, 3, 4, 5, 6, 7, 8, 9, 10, 11, 13, 15, 16, 17, 18, 21, 25>>[a + 1]
TupletNormalAsU32(n) == <<1, 2, 3, 4, 6, 8, 9, 12, 16>>[n + 1]

\* From<Beats> for u32, From<BeatType> for u32
BeatsAsU32(b) == <<2, 3, 4, 5, 6, 9, 12>>[b + 1]
BeatTypeAsU32(b) == <<2, 4, 8, 16>>[b + 1]

\* TryFrom<u32> for TupletActual and for TupletNormal; None is Err(Error::Unit)
TupletActualTryFrom(value) ==
    IF \E a \in 0..(TupletActualCount - 1) : TupletActualAsU32(a) = value
    THEN CHOOSE a \in 0..(TupletActualCount - 1) : TupletActualAsU32(a) = value
    ELSE None
TupletNormalTryFrom(value) ==
    IF \E n \in 0..(TupletNormalCount - 1) : TupletNormalAsU32(n) = value
    THEN CHOOSE n \in 0..(TupletNormalCount - 1) : TupletNormalAsU32(n) = value
    ELSE None

NoTimeModification == [some |-> FALSE]
TimeModification(actual_notes, normal_notes) ==
    [some |-> TRUE, actual_notes |-> actual_notes, normal_notes |-> normal_notes]

\* From<TupletData> for Option<TimeModification>: only a TupletStart sets one
TupletTimeModification(t) ==
    IF t.start_stop = 1 THEN TimeModification(t.actual_notes, t.normal_notes)
    ELSE NoTimeModification

\* NoteData::new_default_rest
NewDefaultRest(note_type, dotted, voice) ==
    [NoteDataDefault EXCEPT !.note_rest = Rest, !.note_type = note_type,
                            !.dotted = dotted, !.voice = voice]

RECURSIVE Gcd(_, _)
Gcd(a, b) == IF b = 0 THEN a ELSE Gcd(b, a % b)

\* num::integer::lcm
Lcm(a, b) == IF a = 0 \/ b = 0 THEN 0 ELSE (a \div Gcd(a, b)) * b

\* NoteData::get_note_multiple: the denominator of the note's reduced
\* fraction of a whole note; None for a note with no duration
GetNoteMultiple(n, time_mods) ==
    IF n.special_note # 0 THEN None
    ELSE LET base == <<128, 64, 32, 16, 8, 4, 2, 1>>[n.note_type + 1]
             numer0 == IF n.dotted THEN 3 ELSE 1
             denom0 == IF n.dotted THEN base * 2 ELSE base
             numer == IF time_mods.some
                      THEN numer0 * TupletNormalAsU32(time_mods.normal_notes)
                      ELSE numer0
             denom == IF time_mods.some
                      THEN denom0 * TupletActualAsU32(time_mods.actual_notes)
                      ELSE denom0
         IN denom \div Gcd(numer, denom)

\* NoteData::get_duration_numeric
GetDurationNumeric(n, quarter, beats, beat_type, time_mods) ==
    IF n.special_note # 0 THEN 0
    ELSE LET numerator0 == IF n.dotted THEN 3 ELSE 1
             denominator0 == IF n.dotted THEN 2 ELSE 1
             numerator == IF time_mods.some
                          THEN numerator0 * TupletNormalAsU32(time_mods.normal_notes)
                          ELSE numerator0
             denominator == IF time_mods.some
                            THEN denominator0 * TupletActualAsU32(time_mods.actual_notes)
                            ELSE denominator0
         IN CASE n.note_type = 0 -> ((quarter * numerator) \div 32) \div denominator
              [] n.note_type = 1 -> ((quarter * numerator) \div 16) \div denominator
              [] n.note_type = 2 -> ((quarter * numerator) \div 8) \div denominator
              [] n.note_type = 3 -> ((quarter * numerator) \div 4) \div denominator
              [] n.note_type = 4 -> ((quarter * numerator) \div 2) \div denominator
              [] n.note_type = 5 -> (quarter * numerator) \div denominator
              [] n.note_type = 6 -> (quarter * 2 * numerator) \div denominator
              [] n.note_type = 7 ->
                   IF n.note_rest = Rest
                   THEN ((quarter * numerator * beats * 10) \div (beat_type * 10))
                            \div denominator
                   ELSE (quarter * 4 * numerator) \div denominator

\* the closure is_dotted of from_numeric_duration
IsDotted(base, duration) == (3 * base) \div 2 = duration

\* the first loop of from_numeric_duration: halve the base duration while it
\* exceeds the duration; ret when a dotted match returns from the function
RECURSIVE HalveLoop(_, _, _)
HalveLoop(base_duration, exponent, numeric_duration) ==
    IF base_duration > numeric_duration /\ exponent < 7
    THEN IF IsDotted(base_duration \div 2, numeric_duration)
         THEN [ret |-> TRUE, base_duration |-> base_duration \div 2, exponent |-> exponent + 1]
         ELSE HalveLoop(base_duration \div 2, exponent + 1, numeric_duration)
    ELSE [ret |-> FALSE, base_duration |-> base_duration, exponent |-> exponent]

\* the second loop: double the base duration while it is below the duration
RECURSIVE DoubleLoop(_, _, _)
DoubleLoop(base_duration, exponent, numeric_duration) ==
    IF base_duration < numeric_duration /\ exponent > 0
    THEN IF IsDotted(base_duration * 2, numeric_duration)
         THEN [ret |-> TRUE, base_duration |-> base_duration * 2, exponent |-> exponent - 1]
         ELSE DoubleLoop(base_duration * 2, exponent - 1, numeric_duration)
    ELSE [ret |-> FALSE, base_duration |-> base_duration, exponent |-> exponent]

\* the values of nn and of an the tuplet search goes through, in its order
NormalCandidates == <<2, 3, 4, 6, 8, 9, 12, 15, 16>>
ActualCandidates == {2, 3, 4, 5, 6, 7, 8, 9, 10, 11, 13, 15, 16, 17, 18, 21, 25}

\* the tuplet search from its k-th nn on: the first an with
\* base_duration * nn = numeric_duration * an ends the inner loop, and sets
\* the representation when an # nn; "panic" is the unwrap_or_else of a
\* failed try_from
RECURSIVE TupletSearch(_, _, _)
TupletSearch(k, base_duration, numeric_duration) ==
    IF k > Len(NormalCandidates) THEN NoTimeModification
    ELSE LET nn == NormalCandidates[k]
             hits == {an \in ActualCandidates : base_duration * nn = numeric_duration * an}
             an == CHOOSE a \in hits : \A b \in hits : a <= b
         IN IF hits = {} THEN TupletSearch(k + 1, base_duration, numeric_duration)
            ELSE IF an = nn THEN TupletSearch(k + 1, base_duration, numeric_duration)
            ELSE IF TupletActualTryFrom(an) = None \/ TupletNormalTryFrom(nn) = None
            THEN [some |-> TRUE, panic |-> TRUE]
            ELSE TimeModification(TupletActualTryFrom(an), TupletNormalTryFrom(nn))

\* the note_types array of from_numeric_duration, indexed by exponent
NoteTypes == <<7, 6, 5, 4, 3, 2, 1, 0>>

FoundSome(note_type, dotted, time_mod) ==
    [kind |-> "Some", note_type |-> note_type, dotted |-> dotted, time_mod |-> time_mod]
FoundPanic == [kind |-> "panic"]

\* NoteData::from_numeric_duration
FromNumericDuration(numeric_duration, quarter_division) ==
    IF IsDotted(quarter_division, numeric_duration)
    THEN FoundSome(NoteTypes[2 + 1], TRUE, NoTimeModification)
    ELSE LET h == HalveLoop(quarter_division, 2, numeric_duration)
         IN IF h.ret THEN FoundSome(NoteTypes[h.exponent + 1], TRUE, NoTimeModification)
            ELSE LET d == DoubleLoop(h.base_duration, h.exponent, numeric_duration)
                 IN IF d.ret
                    THEN FoundSome(NoteTypes[d.exponent + 1], TRUE, NoTimeModification)
                    ELSE LET t == TupletSearch(1, d.base_duration, numeric_duration)
                         IN IF t.some /\ "panic" \in DOMAIN t THEN FoundPanic
                            ELSE FoundSome(NoteTypes[d.exponent + 1], FALSE, t)

\* whether the divisions of get_duration_numeric leave no remainder: the
\* duration is a whole number of ticks
DurationIsExact(n, quarter, beats, beat_type, time_mods) ==
    LET numerator0 == IF n.dotted THEN 3 ELSE 1
        denominator0 == IF n.dotted THEN 2 ELSE 1
        numerator == IF time_mods.some
                     THEN numerator0 * TupletNormalAsU32(time_mods.normal_notes)
                     ELSE numerator0
        denominator == IF time_mods.some
                       THEN denominator0 * TupletActualAsU32(time_mods.actual_notes)
                       ELSE denominator0
    IN CASE n.note_type \in 0..4 ->
                (quarter * numerator) % (Pow2(5 - n.note_type) * denominator) = 0
         [] n.note_type = 5 -> (quarter * numerator) % denominator = 0
         [] n.note_type = 6 -> (quarter * 2 * numerator) % denominator = 0
         [] n.note_type = 7 ->
              IF n.note_rest = Rest
              THEN (quarter * numerator * beats * 10) % (beat_type * 10 * denominator) = 0
              ELSE (quarter * 4 * numerator) % denominator = 0

-----------------------------------------------------------------------------
(* Divisions of a part (ir/musical_part.rs, ir/measure_checker.rs)           *)

\* DivisionsVec::add: a value is kept when it is nonzero and not yet present
DivisionsVecAdd(inner, value) ==
    IF value # 0 /\ ~(\E k \in 1..Len(inner) : inner[k] = value)
    THEN Append(inner, value) ELSE inner

\* DivisionsVec::find_lcm: the fold of lcm over the values, from 1
RECURSIVE FindLcmFrom(_, _, _)
FindLcmFrom(inner, k, acc) ==
    IF k > Len(inner) THEN acc ELSE FindLcmFrom(inner, k + 1, Lcm(acc, inner[k]))
FindLcm(inner) == FindLcmFrom(inner, 1, 1)

\* the loop of update_divisions_voices and of calc_divisions_voices over the
\* elements from the i-th on: the note multiples and the voices collected
RECURSIVE CollectDivisionsVoices(_, _, _, _, _)
CollectDivisionsVoices(elems, i, time_mod, integers_v, vs) ==
    IF i > Len(elems) THEN [integers_v |-> integers_v, voices |-> vs]
    ELSE LET e == elems[i]
         IN CASE e.elem = "Tuplet" ->
                   CollectDivisionsVoices(elems, i + 1, TupletTimeModification(e),
                                          integers_v, vs)
              [] e.elem = "NoteRest" ->
                   LET m == GetNoteMultiple(e, time_mod)
                   IN CollectDivisionsVoices(elems, i + 1, time_mod,
                          DivisionsVecAdd(integers_v, IF m = None THEN 0 ELSE m),
                          vs \cup {e.voice})
              [] OTHER ->
                   CollectDivisionsVoices(elems, i + 1, time_mod, integers_v, vs)

\* Beats::default() and BeatType::default(): 4/4
DefaultSig == [beats |-> 2, beat_type |-> 1]

\* from_musical_part: the time signature in force at the i-th element
\* (cur_beat, cur_beat_type), set by the MeasureInit elements before it
RECURSIVE CurSig(_, _)
CurSig(elems, i) ==
    IF i <= 1 THEN DefaultSig
    ELSE IF elems[i - 1].elem = "MeasureInit"
         THEN [beats |-> elems[i - 1].beats, beat_type |-> elems[i - 1].beat_type]
         ELSE CurSig(elems, i - 1)

\* from_musical_part: the time modification in force at the i-th element
\* (cur_t_modification), set by the Tuplet elements before it
RECURSIVE CurTimeModification(_, _)
CurTimeModification(elems, i) ==
    IF i <= 1 THEN NoTimeModification
    ELSE IF elems[i - 1].elem = "Tuplet" THEN TupletTimeModification(elems[i - 1])
         ELSE CurTimeModification(elems, i - 1)

-----------------------------------------------------------------------------
(* MeasureChecker (ir/measure_checker.rs).  Indices into the measure are the *)
(* code's, from 0; the arrays voice_durations and voice_last_idx are tuples  *)
(* indexed from 1.                                                           *)

\* the value of 0usize - 1 where the subtraction wraps (usize::MAX)
UsizeWrapped == -1

\* the first loop of remove_incomplete_voices, from the element of index idx
\* on: st holds voice_durations, voice_last_idx, time_mod, prev_voice, and
\* underflow, set when idx - 1 was taken at idx = 0
RECURSIVE ScanVoices(_, _, _, _, _, _)
ScanVoices(m, idx, quarter, beats, beat_type, st) ==
    IF idx >= Len(m) THEN st
    ELSE LET e == m[idx + 1]
         IN CASE e.elem = "Tuplet" ->
                   ScanVoices(m, idx + 1, quarter, beats, beat_type,
                              [st EXCEPT !.time_mod = TupletTimeModification(e)])
              [] e.elem = "NoteRest" ->
                   LET counted == e.chord = 0 /\ e.special_note = 0
                       d == IF counted
                            THEN GetDurationNumeric(e, quarter, beats, beat_type, st.time_mod)
                            ELSE 0
                       higher == e.voice > st.prev_voice
                   IN ScanVoices(m, idx + 1, quarter, beats, beat_type,
                         [voice_durations |->
                              [st.voice_durations EXCEPT ![e.voice + 1] = @ + d],
                          voice_last_idx |->
                              IF higher
                              THEN [st.voice_last_idx EXCEPT ![st.prev_voice + 1] =
                                        IF idx = 0 THEN UsizeWrapped ELSE idx - 1]
                              ELSE st.voice_last_idx,
                          time_mod |-> st.time_mod,
                          prev_voice |-> e.voice,
                          underflow |-> st.underflow \/ (higher /\ idx = 0)])
              [] OTHER -> ScanVoices(m, idx + 1, quarter, beats, beat_type, st)

\* a Vec::insert that writes over the element at index
VecInsertOver(v, index, element) ==
    SubSeq(v, 1, index) \o <<element>> \o SubSeq(v, index + 2, Len(v))

\* Vec::insert(index, element)
VecInsert(v, index, element) ==
    SubSeq(v, 1, index) \o <<element>> \o SubSeq(v, index + 1, Len(v))

\* the second loop of remove_incomplete_voices, from voice_idx on: a rest of
\* the discrepancy is inserted for each voice shorter than voice 0
RECURSIVE InsertRests(_, _, _, _, _)
InsertRests(m, voice_idx, voice_count, quarter, st) ==
    IF voice_idx >= voice_count THEN [panic |-> FALSE, measure |-> m]
    ELSE LET first_voice_duration == st.voice_durations[1]
             mine == st.voice_durations[voice_idx + 1]
             r == FromNumericDuration(first_voice_duration - mine, quarter)
             at == st.voice_last_idx[voice_idx + 1]
         IN IF mine # 0 /\ mine < first_voice_duration
            THEN IF r.kind # "Some" \/ at < 0 \/ at > Len(m)
                 THEN [panic |-> TRUE, measure |-> m]
                 ELSE InsertRests(VecInsert(m, at, NewDefaultRest(r.note_type, r.dotted, voice_idx)),
                                  voice_idx + 1, voice_count, quarter, st)
            ELSE InsertRests(m, voice_idx + 1, voice_count, quarter, st)

\* MeasureChecker::remove_incomplete_voices; in a build with overflow checks
\* the subtraction idx - 1 at idx = 0 panics, otherwise it wraps
RemoveIncompleteVoicesResult(m, vs, quarter, beats, beat_type, overflow_checks) ==
    IF Cardinality(vs) > VoiceCount THEN [panic |-> TRUE, measure |-> m]
    ELSE LET st == ScanVoices(m, 0, quarter, beats, beat_type,
                              [voice_durations |-> <<0, 0, 0, 0>>,
                               voice_last_idx |-> <<0, 0, 0, 0>>,
                               time_mod |-> NoTimeModification,
                               prev_voice |-> 0,
                               underflow |-> FALSE])
         IN IF st.underflow /\ overflow_checks THEN [panic |-> TRUE, measure |-> m]
            ELSE InsertRests(m, 0, Cardinality(vs), quarter, st)

-----------------------------------------------------------------------------
(* The inputs of the codec pipelines *)

DefaultTempo == TempoNewFromRaw(50)

\* elements with one field running over every value of its type, the others
\* at their defaults
MeasureInitSamples ==
       {MeasureInitializer(b, 1, 0, DefaultTempo) : b \in 0..(BeatsCount - 1)}
  \cup {MeasureInitializer(2, b, 0, DefaultTempo) : b \in 0..(BeatTypeCount - 1)}
  \cup {MeasureInitializer(2, 1, k, DefaultTempo) : k \in 0..(KeySignatureCount - 1)}
  \cup {MeasureInitializer(2, 1, 0, TempoNewFromRaw(t)) : t \in 0..MAX_SUPPORTED_RAW_TEMPO}

MeasureMetaSamples ==
       {MeasureMetaData(v, 0, 0) : v \in 0..(MeasureStartEndCount - 1)}
  \cup {MeasureMetaData(0, v, 0) : v \in 0..(EndingCount - 1)}
  \cup {MeasureMetaData(0, 0, v) : v \in 0..(DalSegnoCount - 1)}

NoteDataSamples ==
       {[NoteDataDefault EXCEPT !.note_rest = Pitch(v)] : v \in 1..MAX_NOTE_VALUE}
  \cup {[NoteDataDefault EXCEPT !.phrase_dynamics = v] : v \in 0..(PhraseDynamicsCount - 1)}
  \cup {[NoteDataDefault EXCEPT !.note_type = v] : v \in 0..(RhythmTypeCount - 1)}
  \cup {[NoteDataDefault EXCEPT !.dotted = v] : v \in BOOLEAN}
  \cup {[NoteDataDefault EXCEPT !.arpeggiate = v] : v \in 0..(ArpeggiateCount - 1)}
  \cup {[NoteDataDefault EXCEPT !.special_note = v] : v \in 0..(SpecialNoteCount - 1)}
  \cup {[NoteDataDefault EXCEPT !.articulation = v] : v \in 0..(ArticulationCount - 1)}
  \cup {[NoteDataDefault EXCEPT !.trill = v] : v \in 0..(TrillCount - 1)}
  \cup {[NoteDataDefault EXCEPT !.ties = v] : v \in 0..(NoteConnectionCount - 1)}
  \cup {[NoteDataDefault EXCEPT !.chord = v] : v \in 0..(ChordCount - 1)}
  \cup {[NoteDataDefault EXCEPT !.slur = v] : v \in 0..(SlurConnectionCount - 1)}
  \cup {[NoteDataDefault EXCEPT !.voice = v] : v \in 0..(VoiceCount - 1)}

TupletDataSamples ==
       {TupletData(v, 0, 1, 1, FALSE) : v \in 0..(TupletStartStopCount - 1)}
  \cup {TupletData(1, v, 1, 1, FALSE) : v \in 0..(TupletNumberCount - 1)}
  \cup {TupletData(1, 0, v, 1, FALSE) : v \in 0..(TupletActualCount - 1)}
  \cup {TupletData(1, 0, 1, v, FALSE) : v \in 0..(TupletNormalCount - 1)}
  \cup {TupletData(1, 0, 1, 1, v) : v \in BOOLEAN}

ElemSamples ==
    MeasureInitSamples \cup MeasureMetaSamples \cup NoteDataSamples \cup TupletDataSamples

\* the elements that may precede the last one of a part
BaseElems ==
    {[NoteDataDefault EXCEPT !.note_rest = Pitch(65), !.voice = 1],
     TupletData(1, 0, 1, 1, FALSE)}

\* the field widths of the four records, as the take_bits tuples of
\* bin_decoder.rs give them, the reserved bits last
MeasureInitLayout == <<2, 3, 2, 4, 7, 14>>
MeasureMetaLayout == <<2, 2, 2, 3, 23>>
NoteDataLayout == <<2, 7, 4, 3, 1, 1, 2, 3, 2, 2, 1, 2, 2>>
TupletDataLayout == <<2, 2, 2, 4, 4, 1, 17>>

\* the 4 bytes holding the raw field values vals, laid out by widths
RECURSIVE PackFrom(_, _, _, _, _)
PackFrom(buf, widths, vals, f, off) ==
    IF f > Len(widths) THEN buf
    ELSE PackFrom(SetBitRange(buf, off, off + widths[f] - 1, vals[f]),
                  widths, vals, f + 1, off + widths[f])
Pack(widths, vals) == PackFrom(ZeroData, widths, vals, 1, 0)

\* the raw values a field of the given width is tried with
SweepValues(width) ==
    IF width <= 4 THEN 0..(Pow2(width) - 1)
    ELSE IF width = 7 THEN {0, 1, 50, MAX_NOTE_VALUE, MAX_NOTE_VALUE + 1, 126, 127}
    ELSE {0, 1, Pow2(width) - 1}

\* records with one raw field running over SweepValues, the others valid
RawSweep(widths, base) ==
    {Pack(widths, [base EXCEPT ![f] = v]) :
        <<f, v>> \in UNION {{f} \X SweepValues(widths[f]) : f \in 1..Len(widths)}}

MeasureInitBase == <<0, 2, 1, 0, 50, 0>>
MeasureMetaBase == <<1, 0, 3, 4, 0>>
NoteDataBase == <<2, 65, 13, 7, 1, 0, 0, 2, 0, 0, 0, 0, 1>>
TupletDataBase == <<3, 1, 0, 1, 1, 0, 0>>

RecordSamples ==
         RawSweep(MeasureInitLayout, MeasureInitBase)
    \cup RawSweep(MeasureMetaLayout, MeasureMetaBase)
    \cup RawSweep(NoteDataLayout, NoteDataBase)
    \cup RawSweep(TupletDataLayout, TupletDataBase)

\* the records that may precede the last one of a stream: a valid one with
\* reserved bits set and one with an illegal field (beats = 7)
BaseRecords ==
    {Pack(MeasureMetaLayout, [MeasureMetaBase EXCEPT ![5] = 1]),
     Pack(MeasureInitLayout, [MeasureInitBase EXCEPT ![2] = 7])}

BadMagic == <<77, 117, 66, 73>>

\* the records of a stream, after its 8-byte header
Body(bytes) == Drop(bytes, 8)
LastRecord(bytes) == SubSeq(bytes, Len(bytes) - 3, Len(bytes))

-----------------------------------------------------------------------------
(* The codec pipelines:                                                      *)
(*   "enc": a part is assembled, ir_to_bin writes it, the decoder reads what *)
(*          was written and parse_data parses it;                            *)
(*   "dec": raw bytes are read, parse_data parses them, bin_to_ir makes the  *)
(*          part and ir_to_bin writes it again.                              *)

NotParsed == [ok |-> FALSE, pending |-> TRUE]
NotFound == [kind |-> "NotCalled"]

\* the codec at rest, and the intermediate representation at rest
CodecIdle == w = <<>> /\ data = <<>> /\ parsed = NotParsed
IrIdle ==
    /\ divisions = 0
    /\ voices = {}
    /\ sig = DefaultSig
    /\ tmod = NoTimeModification
    /\ note = NoteDataDefault
    /\ ticks = 0
    /\ found = NotFound
    /\ measure = <<>>

\* MusicalPart::new, PartMap::new, no call made yet
NoMeasureChecker == [some |-> FALSE]
\* Result: Ok(val) and Err(error)
Ok(val) == [ok |-> TRUE, val |-> val, err |-> ""]
Err(error) == [ok |-> FALSE, val |-> 0, err |-> error]
PartIdle ==
    /\ cur_init_measure_idx = None
    /\ measure_checker = NoMeasureChecker
    /\ part_ids = <<>>
    /\ parts = <<>>
    /\ remove_cur_part = FALSE
    /\ res = Ok(0)
    /\ flushes = 0
    /\ cur_phrase_dyn = None
    /\ ir_part_idx = 0

InitEnc ==
    /\ pc = "build"
    /\ complete_part = <<>>
    /\ w = <<>>
    /\ data = <<>>
    /\ parsed = NotParsed
    /\ IrIdle
    /\ PartIdle

InitDec ==
    /\ pc = "raw_header"
    /\ complete_part = <<>>
    /\ w = <<>>
    /\ data = <<>>
    /\ parsed = NotParsed
    /\ IrIdle
    /\ PartIdle

\* MusicalPart gains an element
PushElement(e) ==
    /\ pc = "build"
    /\ Len(complete_part) < MaxElems
    /\ IF complete_part = <<>> THEN TRUE
       ELSE complete_part[Len(complete_part)] \in BaseElems
    /\ complete_part' = Append(complete_part, e)
    /\ UNCHANGED <<pc, w, data, parsed>>
    /\ UNCHANGED <<ir_vars, part_vars>>

\* ir_to_bin(writer, complete_part)
IrToBin ==
    /\ pc \in {"build", "part"}
    /\ w' = IrToBinBytes(complete_part)
    /\ pc' = "written"
    /\ UNCHANGED <<complete_part, data, parsed>>
    /\ UNCHANGED <<ir_vars, part_vars>>

\* MusicDecoder::reader_read of the file ir_to_bin wrote
ReaderRead ==
    /\ pc = "written"
    /\ data' = data \o w
    /\ pc' = "read"
    /\ UNCHANGED <<complete_part, w, parsed>>
    /\ UNCHANGED <<ir_vars, part_vars>>

\* MusicDecoder::raw_read of a header: a magic number and a length field
RawReadHeader(magic, length) ==
    /\ pc = "raw_header"
    /\ data' = data \o magic \o ToLeBytes(length)
    /\ pc' = "raw_records"
    /\ UNCHANGED <<complete_part, w, parsed>>
    /\ UNCHANGED <<ir_vars, part_vars>>

\* MusicDecoder::raw_read of fewer bytes than a header has
RawReadShort(k) ==
    /\ pc = "raw_header"
    /\ data' = data \o SubSeq(CreateHeader(0), 1, k)
    /\ pc' = "raw_done"
    /\ UNCHANGED <<complete_part, w, parsed>>
    /\ UNCHANGED <<ir_vars, part_vars>>

\* MusicDecoder::raw_read of one 4-byte record
RawReadRecord(rec) ==
    /\ pc = "raw_records"
    /\ Len(Body(data)) < MaxRecs * MUSIC_ELEMENT_LENGTH
    /\ IF Body(data) = <<>> THEN TRUE ELSE LastRecord(data) \in BaseRecords
    /\ data' = data \o rec
    /\ UNCHANGED <<pc, complete_part, w, parsed>>
    /\ UNCHANGED <<ir_vars, part_vars>>

\* MusicDecoder::raw_read of the first k bytes of a record: the input ends
\* inside a record
RawReadPartial(rec, k) ==
    /\ pc = "raw_records"
    /\ data' = data \o SubSeq(rec, 1, k)
    /\ pc' = "raw_done"
    /\ UNCHANGED <<complete_part, w, parsed>>
    /\ UNCHANGED <<ir_vars, part_vars>>

\* MusicDecoder::parse_data
ParseDataStep ==
    /\ pc \in {"read", "raw_header", "raw_records", "raw_done"}
    /\ parsed' = ParseData(data)
    /\ pc' = "parsed"
    /\ UNCHANGED <<complete_part, w, data>>
    /\ UNCHANGED <<ir_vars, part_vars>>

\* bin_to_ir: the part made of the parsed elements
BinToIr ==
    /\ pc = "parsed"
    /\ parsed.ok
    /\ complete_part' = parsed.elements
    /\ pc' = "part"
    /\ UNCHANGED <<w, data, parsed>>
    /\ UNCHANGED <<ir_vars, part_vars>>

vars == <<pc, complete_part, w, data, parsed,
         divisions, voices, sig, tmod, note, ticks, found, measure,
         cur_init_measure_idx, measure_checker, part_ids, parts,
         remove_cur_part, res, flushes,
         cur_phrase_dyn, ir_part_idx>>

\* the headers read: every length field a stream of at most MaxRecs records
\* can carry, rightly or wrongly, under the right magic number, and a wrong
\* magic number
Headers ==
         {<<MUSICBIN_MAGIC_NUMBER, l>> : l \in 0..(MaxRecs * MUSIC_ELEMENT_LENGTH + 3)}
    \cup {<<BadMagic, l>> : l \in {0, MUSIC_ELEMENT_LENGTH}}

NextEnc ==
    \/ \E e \in ElemSamples : PushElement(e)
    \/ IrToBin
    \/ ReaderRead
    \/ ParseDataStep

NextDec ==
    \/ \E h \in Headers : RawReadHeader(h[1], h[2])
    \/ \E k \in 0..7 : RawReadShort(k)
    \/ \E rec \in RecordSamples : RawReadRecord(rec)
    \/ \E k \in 1..3 : RawReadPartial(Pack(NoteDataLayout, NoteDataBase), k)
    \/ ParseDataStep
    \/ BinToIr
    \/ IrToBin

\* ir -> bin -> ir
SpecEnc == InitEnc /\ [][NextEnc]_vars

\* bin -> ir -> bin
SpecDec == InitDec /\ [][NextDec]_vars

-----------------------------------------------------------------------------
(* Duration arithmetic: get_duration_numeric and from_numeric_duration are   *)
(* applied to notes, resolutions, time signatures and tick counts drawn from *)
(* the sets below.                                                           *)

\* the largest tick count handed directly to from_numeric_duration
MaxTicks == 40

DurationNotes ==
    {[NoteDataDefault EXCEPT !.note_rest = r, !.note_type = t, !.dotted = d] :
        r \in {Rest, Pitch(65)}, t \in 0..(RhythmTypeCount - 1), d \in BOOLEAN}
    \cup {[NoteDataDefault EXCEPT !.note_rest = Pitch(65), !.special_note = 1]}

\* no tuplet, 3:2, 5:4, 7:4
TimeModSamples ==
    {NoTimeModification, TimeModification(1, 1), TimeModification(3, 3),
     TimeModification(5, 3)}

DivisionsSamples == {1, 2, 4, 6, 24, 32, 336, 480}

\* 4/4, 3/4, 3/8, 6/8, 2/2, 12/16
SigSamples ==
    {[beats |-> 2, beat_type |-> 1], [beats |-> 1, beat_type |-> 1],
     [beats |-> 1, beat_type |-> 2], [beats |-> 4, beat_type |-> 2],
     [beats |-> 0, beat_type |-> 0], [beats |-> 6, beat_type |-> 3]}

InitDur ==
    /\ complete_part = <<>>
    /\ CodecIdle
    /\ PartIdle
    /\ voices = {}
    /\ measure = <<>>
    /\ found = NotFound
    /\ divisions \in DivisionsSamples
    /\ \/ /\ pc = "dur_note"
          /\ note \in DurationNotes
          /\ sig \in SigSamples
          /\ tmod \in TimeModSamples
          /\ ticks = 0
       \/ /\ pc = "dur_ticks"
          /\ note = NoteDataDefault
          /\ sig = DefaultSig
          /\ tmod = NoTimeModification
          /\ ticks \in 1..MaxTicks

\* note.get_duration_numeric(divisions, beats, beat_type, time_mod)
GetDurationNumericStep ==
    /\ pc = "dur_note"
    /\ ticks' = GetDurationNumeric(note, divisions, BeatsAsU32(sig.beats),
                                   BeatTypeAsU32(sig.beat_type), tmod)
    /\ pc' = "dur_note_ticks"
    /\ UNCHANGED <<complete_part, codec_vars, part_vars, divisions, voices, sig, tmod, note, found, measure>>

\* NoteData::from_numeric_duration(ticks, divisions)
FromNumericDurationStep ==
    /\ pc \in {"dur_ticks", "dur_note_ticks"}
    /\ found' = FromNumericDuration(ticks, divisions)
    /\ pc' = IF pc = "dur_ticks" THEN "dur_found" ELSE "dur_note_found"
    /\ UNCHANGED <<complete_part, codec_vars, part_vars, divisions, voices, sig, tmod, note, ticks, measure>>

NextDur ==
    \/ GetDurationNumericStep
    \/ FromNumericDurationStep

SpecDur == InitDur /\ [][NextDur]_vars

-----------------------------------------------------------------------------
(* A part made from elements: MusicalPart::new_from_elems computes the       *)
(* divisions, then from_musical_part takes the duration of each note.        *)

MaxPieceElems == 3

PieceElems ==
         {MeasureInitializer(b, t, 0, DefaultTempo) : <<b, t>> \in {<<1, 1>>, <<1, 2>>, <<4, 2>>}}
    \cup {TupletData(1, 0, 1, 1, FALSE), TupletData(2, 0, 1, 1, FALSE)}
    \cup {[NoteDataDefault EXCEPT !.note_rest = r, !.note_type = t, !.dotted = d] :
             r \in {Rest, Pitch(65)}, t \in {0, 4, 5, 7}, d \in BOOLEAN}
    \cup {[NoteDataDefault EXCEPT !.note_rest = Pitch(65), !.special_note = 1],
          [NoteDataDefault EXCEPT !.note_rest = Pitch(65), !.voice = 1]}

InitPiece ==
    /\ pc = "piece_build"
    /\ complete_part = <<>>
    /\ CodecIdle
    /\ IrIdle
    /\ PartIdle

\* the elements handed to MusicalPart::new_from_elems
PushPieceElement(e) ==
    /\ pc = "piece_build"
    /\ Len(complete_part) < MaxPieceElems
    /\ complete_part' = Append(complete_part, e)
    /\ UNCHANGED <<pc, codec_vars, part_vars, ir_vars>>

\* MusicalPart::new_from_elems: update_divisions_voices
NewFromElems ==
    /\ pc = "piece_build"
    /\ LET c == CollectDivisionsVoices(complete_part, 1, NoTimeModification, <<>>, {})
       IN IF Cardinality(c.voices) > VoiceCount
          THEN /\ pc' = "piece_err"        \* Err(Error::OutofBounds)
               /\ voices' = c.voices
               /\ UNCHANGED divisions
          ELSE /\ pc' = "piece"
               /\ voices' = c.voices
               /\ divisions' = FindLcm(c.integers_v)
    /\ UNCHANGED <<complete_part, codec_vars, part_vars, sig, tmod, note, ticks, found, measure>>

\* from_musical_part reaches the i-th element, a note: ser_note_rest takes its
\* duration at the part's divisions
SerNoteRest(i) ==
    /\ pc \in {"piece", "piece_note"}
    /\ Cardinality(voices) # 0
    /\ i <= Len(complete_part)
    /\ complete_part[i].elem = "NoteRest"
    /\ complete_part[i].chord = 0
    /\ note' = complete_part[i]
    /\ sig' = CurSig(complete_part, i)
    /\ tmod' = CurTimeModification(complete_part, i)
    /\ ticks' = GetDurationNumeric(complete_part[i], divisions,
                                   BeatsAsU32(CurSig(complete_part, i).beats),
                                   BeatTypeAsU32(CurSig(complete_part, i).beat_type),
                                   CurTimeModification(complete_part, i))
    /\ pc' = "piece_note"
    /\ UNCHANGED <<complete_part, codec_vars, part_vars, divisions, voices, found, measure>>

NextPiece ==
    \/ \E e \in PieceElems : PushPieceElement(e)
    \/ NewFromElems
    \/ \E i \in 1..MaxPieceElems : SerNoteRest(i)

SpecPiece == InitPiece /\ [][NextPiece]_vars

-----------------------------------------------------------------------------
(* A measure in the MeasureChecker: elements are pushed, then               *)
(* remove_incomplete_voices runs (push_meta_end).                            *)

MaxMeasureLen == 3

MeasureElems ==
         {[NoteDataDefault EXCEPT !.note_rest = Pitch(65), !.note_type = t, !.dotted = d] :
             t \in {4, 5, 6}, d \in BOOLEAN}
    \cup {[NoteDataDefault EXCEPT !.note_rest = Pitch(65), !.note_type = t, !.voice = v] :
             t \in {4, 5, 6}, v \in {1, 2}}
    \cup {[NoteDataDefault EXCEPT !.note_rest = Pitch(65), !.chord = 1],
          TupletData(1, 0, 1, 1, FALSE), TupletData(2, 0, 1, 1, FALSE)}

\* MeasureChecker::new(quarter_division, measure_init, ...), the part having
\* met no voice or two voices so far
InitMeasure ==
    /\ pc = "measure_open"
    /\ complete_part = <<>>
    /\ CodecIdle
    /\ PartIdle
    /\ measure = <<>>
    /\ divisions \in {2, 4}
    /\ sig \in {[beats |-> 2, beat_type |-> 1], [beats |-> 1, beat_type |-> 1]}
    /\ voices \in {{}, {0, 1}}
    /\ tmod = NoTimeModification
    /\ note = NoteDataDefault
    /\ ticks = 0
    /\ found = NotFound

\* MeasureChecker::push_elem; a note's voice is the position of its voice
\* number in the part's voices, a new voice taking the next position
PushElem(e) ==
    /\ pc = "measure_open"
    /\ Len(measure) < MaxMeasureLen
    /\ IF e.elem = "NoteRest"
       THEN /\ e.voice \in voices \cup {Cardinality(voices)}
            /\ voices' = voices \cup {e.voice}
       ELSE UNCHANGED voices
    /\ measure' = Append(measure, e)
    /\ UNCHANGED <<pc, complete_part, codec_vars, part_vars, divisions, sig, tmod, note, ticks, found>>

\* MusicalPart::push_meta_end: measure_checker.remove_incomplete_voices(&self.voices)
RemoveIncompleteVoices(overflow_checks) ==
    /\ pc = "measure_open"
    /\ LET r == RemoveIncompleteVoicesResult(measure, voices, divisions,
                     BeatsAsU32(sig.beats), BeatTypeAsU32(sig.beat_type), overflow_checks)
       IN /\ pc' = IF r.panic THEN "measure_panic" ELSE "measure_closed"
          /\ measure' = r.measure
    /\ UNCHANGED <<complete_part, codec_vars, part_vars, divisions, voices, sig, tmod, note, ticks, found>>

NextMeasure ==
    \/ \E e \in MeasureElems : PushElem(e)
    \/ \E overflow_checks \in BOOLEAN : RemoveIncompleteVoices(overflow_checks)

SpecMeasure == InitMeasure /\ [][NextMeasure]_vars

-----------------------------------------------------------------------------
(* ir_to_bin call by call, over a writer whose write and flush may fail *)

InitWrite ==
    /\ pc = "enc_header"
    /\ complete_part \in {<<>>} \cup {<<e>> : e \in ElemSamples}
                          \cup {<<e, f>> : e \in BaseElems, f \in ElemSamples}
    /\ CodecIdle
    /\ IrIdle
    /\ PartIdle

\* music_encoder.create_header(..)?: two write_chunk calls, of the magic
\* number and of the length; failed_write is the one that fails, 0 for none
IrToBinCreateHeader(failed_write) ==
    /\ pc = "enc_header"
    /\ LET hdr == CreateHeader(Len(complete_part) * MUSIC_ELEMENT_LENGTH)
       IN w' = CASE failed_write = 0 -> w \o hdr
                 [] failed_write = 1 -> w
                 [] failed_write = 2 -> w \o SubSeq(hdr, 1, 4)
    /\ pc' = IF failed_write = 0 THEN "enc_records" ELSE "enc_err"
    /\ res' = IF failed_write = 0 THEN Ok(0) ELSE Err("IoKind")
    /\ UNCHANGED <<complete_part, data, parsed, ir_vars, cur_init_measure_idx,
                   measure_checker, part_ids, parts, remove_cur_part, flushes,
                   cur_phrase_dyn, ir_part_idx>>

\* one turn of the loop of ir_to_bin: music_encoder.insert_..(element)?
IrToBinInsert(write_ok) ==
    /\ pc = "enc_records"
    /\ LET i == ((Len(w) - 8) \div MUSIC_ELEMENT_LENGTH) + 1
       IN /\ i <= Len(complete_part)
          /\ w' = IF write_ok THEN w \o EncodeElement(complete_part[i]) ELSE w
    /\ pc' = IF write_ok THEN "enc_records" ELSE "enc_err"
    /\ res' = IF write_ok THEN Ok(0) ELSE Err("IoKind")
    /\ UNCHANGED <<complete_part, data, parsed, ir_vars, cur_init_measure_idx,
                   measure_checker, part_ids, parts, remove_cur_part, flushes,
                   cur_phrase_dyn, ir_part_idx>>

\* music_encoder.flush()? after the loop, then Ok(())
IrToBinFlush(flush_ok) ==
    /\ pc = "enc_records"
    /\ Len(w) = 8 + Len(complete_part) * MUSIC_ELEMENT_LENGTH
    /\ flushes' = flushes + 1
    /\ pc' = IF flush_ok THEN "enc_ok" ELSE "enc_err"
    /\ res' = IF flush_ok THEN Ok(0) ELSE Err("IoKind")
    /\ UNCHANGED <<complete_part, codec_vars, ir_vars, cur_init_measure_idx,
                   measure_checker, part_ids, parts, remove_cur_part,
                   cur_phrase_dyn, ir_part_idx>>

NextWrite ==
    \/ \E failed_write \in 0..2 : IrToBinCreateHeader(failed_write)
    \/ \E write_ok \in BOOLEAN : IrToBinInsert(write_ok)
    \/ \E flush_ok \in BOOLEAN : IrToBinFlush(flush_ok)

SpecWrite == InitWrite /\ [][NextWrite]_vars

-----------------------------------------------------------------------------
(* PartMap: the calls of its interface, in any order *)

MaxParts == 3

PartKeys == {"P1", "P2", "P3"}

\* the MusicalPart values pushed, told apart by their elements
PartSamples == {<<>>, <<NoteDataDefault>>}

InitPartMap ==
    /\ pc = "part_map"
    /\ complete_part = <<>>
    /\ CodecIdle
    /\ IrIdle
    /\ PartIdle

\* PartMap::push_part that pushes whether or not the key is populated
PushPartAgain(part_key, part) ==
    /\ pc = "part_map"
    /\ Len(parts) < MaxParts
    /\ parts' = Append(parts, part)
    /\ part_ids' = (part_key :> Len(parts)) @@ part_ids
    /\ res' = Ok(0)
    /\ UNCHANGED <<pc, complete_part, codec_vars, ir_vars, cur_init_measure_idx,
                   measure_checker, remove_cur_part, flushes,
                   cur_phrase_dyn, ir_part_idx>>

\* PartMap::push_part(part_key, part); Some(idx) is idx itself
PushPart(part_key, part) ==
    /\ pc = "part_map"
    /\ Len(parts) < MaxParts
    /\ IF part_key \in DOMAIN part_ids
       THEN IF part_ids[part_key] = None
            THEN /\ parts' = Append(parts, part)
                 /\ part_ids' = (part_key :> Len(parts)) @@ part_ids
                 /\ res' = Ok(0)
            ELSE /\ res' = Err("ItemExists")
                 /\ UNCHANGED <<parts, part_ids>>
       ELSE /\ parts' = Append(parts, part)
            /\ part_ids' = (part_key :> Len(parts)) @@ part_ids
            /\ res' = Ok(0)
    /\ UNCHANGED <<pc, complete_part, codec_vars, ir_vars, cur_init_measure_idx,
                   measure_checker, remove_cur_part, flushes,
                   cur_phrase_dyn, ir_part_idx>>

\* PartMap::add_part_id(id)
AddPartId(id) ==
    /\ pc = "part_map"
    /\ IF id \in DOMAIN part_ids
       THEN /\ res' = Err("ItemExists")
            /\ UNCHANGED part_ids
       ELSE /\ part_ids' = (id :> None) @@ part_ids
            /\ res' = Ok(0)
    /\ UNCHANGED <<pc, complete_part, codec_vars, ir_vars, cur_init_measure_idx,
                   measure_checker, parts, remove_cur_part, flushes,
                   cur_phrase_dyn, ir_part_idx>>

\* PartMap::remove_part(part_key): the key maps to None from now on
RemovePart(part_key) ==
    /\ pc = "part_map"
    /\ part_ids' = (part_key :> None) @@ part_ids
    /\ UNCHANGED <<pc, complete_part, codec_vars, ir_vars, cur_init_measure_idx,
                   measure_checker, parts, remove_cur_part, res, flushes,
                   cur_phrase_dyn, ir_part_idx>>

NextPartMap ==
    \/ \E k \in PartKeys, p \in PartSamples : PushPart(k, p)
    \/ \E k \in PartKeys : AddPartId(k)
    \/ \E k \in PartKeys : RemovePart(k)

SpecPartMap == InitPartMap /\ [][NextPartMap]_vars

-----------------------------------------------------------------------------
(* MusicalPart: the calls of its interface, in any order *)

MaxPartLen == 4

\* MeasureChecker::MAX_SUPPORTED_VOICES
MAX_SUPPORTED_VOICES == 4

\* the voice numbers of the note tags: one more than a part supports
VoiceNums == 1..(MAX_SUPPORTED_VOICES + 1)

\* the sum of conform_backup_placeholder_rests over measure[i..], and the
\* voice of the last note met
RECURSIVE DurationSinceBackup(_, _, _, _, _)
DurationSinceBackup(m, i, mc, time_mod, acc) ==
    IF i >= Len(m) THEN acc
    ELSE LET e == m[i + 1]
         IN CASE e.elem = "NoteRest" ->
                   DurationSinceBackup(m, i + 1, mc, time_mod,
                       [sum |-> acc.sum +
                                  (IF e.chord = 0
                                   THEN GetDurationNumeric(e, mc.quarter_division,
                                            BeatsAsU32(mc.beats), BeatTypeAsU32(mc.beat_type),
                                            time_mod)
                                   ELSE 0),
                        current_voice |-> e.voice])
              [] e.elem = "Tuplet" ->
                   DurationSinceBackup(m, i + 1, mc, TupletTimeModification(e), acc)
              [] OTHER -> DurationSinceBackup(m, i + 1, mc, time_mod, acc)

\* MeasureChecker::conform_backup_placeholder_rests on the measure m of the
\* checker mc; in a build with overflow checks a usize subtraction below zero
\* panics, otherwise it wraps to a huge value
ConformBackupPlaceholderRests(m, mc, backup_duration, overflow_checks) ==
    IF mc.elems_since_backup > Len(m) THEN [panic |-> TRUE, measure |-> m]
    ELSE IF backup_duration < mc.forward_duration
    THEN [panic |-> overflow_checks, measure |-> m]
    ELSE LET actual_duration == backup_duration - mc.forward_duration
             t == DurationSinceBackup(m, Len(m) - mc.elems_since_backup, mc,
                                      NoTimeModification, [sum |-> 0, current_voice |-> 0])
             r == FromNumericDuration(t.sum - actual_duration, mc.quarter_division)
         IN IF actual_duration < t.sum
            THEN IF r.kind # "Some" THEN [panic |-> TRUE, measure |-> m]
                 ELSE [panic |-> FALSE,
                       measure |-> Append(m, NewDefaultRest(r.note_type, r.dotted,
                                                   (t.current_voice + 1) % VoiceCount))]
            ELSE [panic |-> FALSE, measure |-> m]

\* MusicalPart::new, then set_initial_divisions unless divisions is None
InitPartCalls ==
    /\ pc = "part"
    /\ complete_part = <<>>
    /\ CodecIdle
    /\ PartIdle
    /\ divisions \in {None, 2}
    /\ voices = {}
    /\ sig = DefaultSig
    /\ tmod = NoTimeModification
    /\ note = NoteDataDefault
    /\ ticks = 0
    /\ found = NotFound
    /\ measure = <<>>

\* a call panics: the part is lost
PartPanics ==
    /\ pc' = "part_panic"
    /\ UNCHANGED <<complete_part, codec_vars, ir_vars, part_vars>>

\* MusicalPart::insert_new_voice that keeps the voice it refuses
InsertNewVoiceKept(voice_num) ==
    /\ pc = "part"
    /\ voices' = voices \cup {voice_num}
    /\ res' = IF Cardinality(voices') > MAX_SUPPORTED_VOICES THEN Err("OutofBounds")
              ELSE Ok(Cardinality({x \in voices' : x < voice_num}))
    /\ UNCHANGED <<pc, complete_part, codec_vars, divisions, sig, tmod, note, ticks,
                   found, measure, cur_init_measure_idx, measure_checker, part_ids,
                   parts, remove_cur_part, flushes,
                   cur_phrase_dyn, ir_part_idx>>

\* MusicalPart::insert_new_voice(voice_num)
InsertNewVoice(voice_num) ==
    /\ pc = "part"
    /\ LET inserted == voices \cup {voice_num}
       IN IF Cardinality(inserted) > MAX_SUPPORTED_VOICES
          THEN /\ voices' = inserted \ {voice_num}
               /\ res' = Err("OutofBounds")
          ELSE /\ voices' = inserted
               /\ res' = Ok(Cardinality({x \in inserted : x < voice_num}))
    /\ UNCHANGED <<pc, complete_part, codec_vars, divisions, sig, tmod, note, ticks,
                   found, measure, cur_init_measure_idx, measure_checker, part_ids,
                   parts, remove_cur_part, flushes,
                   cur_phrase_dyn, ir_part_idx>>

\* MusicalPart::push_init_measure(init_measure)
PushInitMeasure(init_measure) ==
    /\ pc = "part"
    /\ Len(complete_part) + Len(measure) < MaxPartLen
    /\ complete_part' = Append(complete_part, init_measure)
    /\ cur_init_measure_idx' = Len(complete_part') - 1
    /\ UNCHANGED <<pc, codec_vars, ir_vars, measure_checker, part_ids, parts,
                   remove_cur_part, res, flushes,
                   cur_phrase_dyn, ir_part_idx>>

\* MusicalPart::push_meta_start(meta_start, forward_duration, ..): a new
\* MeasureChecker, with an empty measure, replaces the one there was
PushMetaStart(meta_start, forward_duration) ==
    /\ pc = "part"
    /\ Len(complete_part) + Len(measure) < MaxPartLen
    /\ IF cur_init_measure_idx = None \/ divisions = None
       THEN PartPanics
       ELSE LET cur_init_measure == complete_part[cur_init_measure_idx + 1]
            IN /\ measure_checker' =
                      [some |-> TRUE, elems_since_backup |-> 0,
                       quarter_division |-> divisions,
                       beats |-> cur_init_measure.beats,
                       beat_type |-> cur_init_measure.beat_type,
                       forward_duration |-> forward_duration]
               /\ measure' = <<>>
               /\ complete_part' = Append(complete_part, meta_start)
               /\ UNCHANGED <<pc, codec_vars, divisions, voices, sig, tmod, note, ticks,
                              found, cur_init_measure_idx, part_ids, parts,
                              remove_cur_part, res, flushes,
                              cur_phrase_dyn, ir_part_idx>>

\* MusicalPart::push_measure_elem(measure_elem): MeasureChecker::push_elem
PushMeasureElem(measure_elem) ==
    /\ pc = "part"
    /\ Len(complete_part) + Len(measure) < MaxPartLen
    /\ IF ~measure_checker.some
       THEN PartPanics
       ELSE /\ measure' = Append(measure, measure_elem)
            /\ measure_checker' =
                   [measure_checker EXCEPT !.elems_since_backup = @ + 1]
            /\ UNCHANGED <<pc, complete_part, codec_vars, divisions, voices, sig, tmod,
                           note, ticks, found, cur_init_measure_idx, part_ids, parts,
                           remove_cur_part, res, flushes,
                           cur_phrase_dyn, ir_part_idx>>

\* MusicalPart::update_backup_duration(duration_val)
UpdateBackupDuration(duration_val, overflow_checks) ==
    /\ pc = "part"
    /\ Len(complete_part) + Len(measure) < MaxPartLen
    /\ IF ~measure_checker.some
       THEN PartPanics
       ELSE LET r == ConformBackupPlaceholderRests(measure, measure_checker,
                                                   duration_val, overflow_checks)
            IN IF r.panic
               THEN PartPanics
               ELSE /\ measure' = r.measure
                    /\ measure_checker' = [measure_checker EXCEPT !.elems_since_backup = 0]
                    /\ UNCHANGED <<pc, complete_part, codec_vars, divisions, voices, sig,
                                   tmod, note, ticks, found, cur_init_measure_idx,
                                   part_ids, parts, remove_cur_part, res, flushes,
                                   cur_phrase_dyn, ir_part_idx>>

\* MusicalPart::push_meta_end(meta_end): remove_incomplete_voices, then the
\* measure is moved to the end of elems and meta_end pushed after it
PushMetaEnd(meta_end, overflow_checks) ==
    /\ pc = "part"
    /\ Len(complete_part) + Len(measure) < MaxPartLen
    /\ IF ~measure_checker.some
       THEN PartPanics
       ELSE LET r == RemoveIncompleteVoicesResult(measure, voices,
                         measure_checker.quarter_division,
                         BeatsAsU32(measure_checker.beats),
                         BeatTypeAsU32(measure_checker.beat_type), overflow_checks)
            IN IF r.panic
               THEN PartPanics
               ELSE /\ complete_part' = Append(complete_part \o r.measure, meta_end)
                    /\ measure' = <<>>
                    /\ UNCHANGED <<pc, codec_vars, divisions, voices, sig, tmod, note,
                                   ticks, found, part_vars>>

\* the arguments of the calls
PartInits == {MeasureInitializer(2, 1, 0, DefaultTempo), MeasureInitializer(1, 1, 0, DefaultTempo)}
PartNotes ==
    {[NoteDataDefault EXCEPT !.note_rest = Pitch(65)],
     [NoteDataDefault EXCEPT !.note_rest = Pitch(65), !.note_type = 6]}

NextPartCalls ==
    \/ \E voice_num \in VoiceNums : InsertNewVoice(voice_num)
    \/ \E m \in PartInits : PushInitMeasure(m)
    \/ \E k \in {0, 2}, f \in {0, 2} : PushMetaStart(MeasureMetaData(k, 0, 0), f)
    \/ \E e \in PartNotes : PushMeasureElem(e)
    \/ \E d \in {0, 2, 4}, c \in BOOLEAN : UpdateBackupDuration(d, c)
    \/ \E k \in {1, 3}, c \in BOOLEAN : PushMetaEnd(MeasureMetaData(k, 0, 0), c)

SpecPartCalls == InitPartCalls /\ [][NextPartCalls]_vars

-----------------------------------------------------------------------------
(* multipartxml_to_ir: a MusicXML document, read part by part, measure by    *)
(* measure and tag by tag                                                    *)

MaxXmlParts == 2
MaxXmlElems == 7

MAX_SUPPORTED_PARTS == 4

\* the ids of the score-part tags, in the order of PartMap::keys
XmlPartIds == <<"P1", "P2", "P3", "P4", "P5">>

\* the elements of the parts of the map together
RECURSIVE TotalLen(_)
TotalLen(ps) == IF ps = <<>> THEN 0 ELSE Len(Head(ps)) + TotalLen(Tail(ps))

\* the document goes on: the elements made from it so far are below the bound
XmlRoom == Len(complete_part) + Len(measure) + TotalLen(parts) < MaxXmlElems

InitXml ==
    /\ pc = "xml_start"
    /\ complete_part = <<>>
    /\ CodecIdle
    /\ PartIdle
    /\ divisions = None
    /\ voices = {}
    /\ sig = DefaultSig
    /\ tmod = NoTimeModification
    /\ note = NoteDataDefault
    /\ ticks = 0
    /\ found = NotFound
    /\ measure = <<>>

\* the loop over the score-part tags: add_part_id for each, then the check of
\* their number
XmlScoreParts(n) ==
    /\ pc = "xml_start"
    /\ part_ids' = [k \in {XmlPartIds[i] : i \in 1..n} |-> None]
    /\ pc' = IF n > MAX_SUPPORTED_PARTS THEN "xml_err" ELSE "xml_part"
    /\ res' = IF n > MAX_SUPPORTED_PARTS THEN Err("Unit") ELSE res
    /\ UNCHANGED <<complete_part, codec_vars, ir_vars, cur_init_measure_idx,
                   measure_checker, parts, remove_cur_part, flushes, cur_phrase_dyn,
                   ir_part_idx>>

\* the next part of ir_parts: MusicalPart::new
XmlPartBegin ==
    /\ pc = "xml_part"
    /\ ir_part_idx < Cardinality(DOMAIN part_ids)
    /\ XmlRoom
    /\ pc' = "xml_measure"
    /\ complete_part' = <<>>
    /\ divisions' = None
    /\ voices' = {}
    /\ measure' = <<>>
    /\ measure_checker' = NoMeasureChecker
    /\ cur_init_measure_idx' = None
    /\ cur_phrase_dyn' = None
    /\ res' = Ok(0)
    /\ UNCHANGED <<codec_vars, sig, tmod, note, ticks, found, part_ids, parts,
                   remove_cur_part, flushes, ir_part_idx>>

\* the initializer of a measure that always counts as changed
InitMeasureChangedAlways(init_measure_idx, ir_measure_init, cur_init_measure) == TRUE

\* whether the initializer of the measure is pushed: there is none yet, or it
\* differs from the current one
InitMeasureChanged(init_measure_idx, ir_measure_init, cur_init_measure) ==
    IF init_measure_idx = None THEN TRUE ELSE ir_measure_init # cur_init_measure

\* MusicalPart::get_cur_init_measure
GetCurInitMeasure ==
    IF cur_init_measure_idx = None THEN MeasureInitializer(2, 1, 0, DefaultTempo)
    ELSE IF complete_part[cur_init_measure_idx + 1].elem = "MeasureInit"
    THEN complete_part[cur_init_measure_idx + 1]
    ELSE MeasureInitializer(2, 1, 0, DefaultTempo)

\* the head of a measure tag: its divisions (read at the first measure of the
\* part only, 0 at the others), time, fifths and tempo tags (NoTag or None
\* when there is no such tag), the initializer pushed when it changed, then
\* push_meta_start with the duration of its forward tag
XmlMeasureHead(div, time, fifths, tempo, repeat_forward, forward_duration) ==
    /\ pc = "xml_measure"
    /\ XmlRoom
    /\ LET cur == GetCurInitMeasure
           quarter_division == IF cur_init_measure_idx = None THEN div ELSE 0
           with_time == IF ~time.some THEN cur
                        ELSE [cur EXCEPT !.beats = time.beats, !.beat_type = time.beat_type]
           with_key == IF fifths = None THEN with_time
                       ELSE [with_time EXCEPT !.key_sig = fifths]
           ir_measure_init == IF ~tempo.some THEN with_key
                              ELSE [with_key EXCEPT !.tempo = tempo.tempo]
           pushed == InitMeasureChanged(cur_init_measure_idx, ir_measure_init, cur)
           elems == IF pushed THEN Append(complete_part, ir_measure_init)
                    ELSE complete_part
           start == MeasureMetaData(IF repeat_forward THEN 2 ELSE 0, 0, 0)
       IN /\ divisions' = quarter_division
          /\ cur_init_measure_idx' = IF pushed THEN Len(elems) - 1
                                     ELSE cur_init_measure_idx
          /\ measure_checker' =
                 [some |-> TRUE, elems_since_backup |-> 0,
                  quarter_division |-> quarter_division,
                  beats |-> elems[cur_init_measure_idx' + 1].beats,
                  beat_type |-> elems[cur_init_measure_idx' + 1].beat_type,
                  forward_duration |-> forward_duration]
          /\ complete_part' = Append(elems, start)
    /\ measure' = <<>>
    /\ pc' = "xml_elems"
    /\ UNCHANGED <<codec_vars, voices, sig, tmod, note, ticks, found, part_ids, parts,
                   remove_cur_part, res, flushes, cur_phrase_dyn, ir_part_idx>>

\* parse_note_tag of a pitched note with a type tag: voice_num is its voice
\* tag, tuplet the type of its tuplet tag ("none" without one), whose
\* time-modification is 3 in the time of 2; the voice tags of a part number
\* its voices in the order they come up
XmlNote(voice_num, note_type, tuplet) ==
    /\ pc = "xml_elems"
    /\ XmlRoom
    /\ voice_num <= Cardinality(voices) + 1
    /\ LET inserted == voices \cup {voice_num}
           time_mod_value == TimeModification(TupletActualTryFrom(3), TupletNormalTryFrom(2))
           note_data == [NoteDataDefault EXCEPT
                            !.note_rest = Pitch(65), !.note_type = note_type,
                            !.phrase_dynamics = IF cur_phrase_dyn = None THEN 0
                                                ELSE cur_phrase_dyn]
           tuplet_elem(start_stop) ==
               TupletData(start_stop, 0, time_mod_value.actual_notes,
                          time_mod_value.normal_notes, FALSE)
           pushed == CASE tuplet = "start" -> <<tuplet_elem(1), note_data>>
                       [] tuplet = "stop" -> <<note_data, tuplet_elem(2)>>
                       [] OTHER -> <<note_data>>
       IN IF Cardinality(inserted) > MAX_SUPPORTED_VOICES
          THEN /\ res' = Err("OutofBounds")
               /\ UNCHANGED <<voices, measure, measure_checker, cur_phrase_dyn>>
          ELSE /\ res' = Ok(Cardinality({x \in inserted : x < voice_num}))
               /\ voices' = inserted
               /\ cur_phrase_dyn' = None
               /\ measure' = measure \o pushed
               /\ measure_checker' =
                      [measure_checker EXCEPT !.elems_since_backup = @ + Len(pushed)]
    /\ UNCHANGED <<pc, complete_part, codec_vars, divisions, sig, tmod, note, ticks,
                   found, cur_init_measure_idx, part_ids, parts, remove_cur_part,
                   flushes, ir_part_idx>>

\* a note tag with an unpitched tag: the loops over the tags and over the
\* measures of the part are left
XmlUnpitchedNote ==
    /\ pc = "xml_elems"
    /\ remove_cur_part' = TRUE
    /\ pc' = "xml_break"
    /\ UNCHANGED <<complete_part, codec_vars, ir_vars, cur_init_measure_idx,
                   measure_checker, part_ids, parts, res, flushes, cur_phrase_dyn,
                   ir_part_idx>>

\* parse_direction_tag: dyn is the dynamics of the tag, None without one;
\* the direction tags of a measure come before its notes
XmlDirection(dyn) ==
    /\ pc = "xml_elems"
    /\ measure = <<>>
    /\ cur_phrase_dyn' = dyn
    /\ UNCHANGED <<pc, complete_part, codec_vars, ir_vars, cur_init_measure_idx,
                   measure_checker, part_ids, parts, remove_cur_part, res, flushes,
                   ir_part_idx>>

\* parse_backup_tag: update_backup_duration
XmlBackup(duration_val, overflow_checks) ==
    /\ pc = "xml_elems"
    /\ XmlRoom
    /\ LET r == ConformBackupPlaceholderRests(measure, measure_checker,
                                              duration_val, overflow_checks)
       IN IF r.panic
          THEN PartPanics
          ELSE /\ measure' = r.measure
               /\ measure_checker' = [measure_checker EXCEPT !.elems_since_backup = 0]
               /\ UNCHANGED <<pc, complete_part, codec_vars, divisions, voices, sig,
                              tmod, note, ticks, found, cur_init_measure_idx,
                              part_ids, parts, remove_cur_part, res, flushes,
                              cur_phrase_dyn, ir_part_idx>>

\* the end of a measure whose tags were all gone through: push_meta_end,
\* with RepeatEnd when the repeat tag of the measure is backward
XmlMeasureEnd(repeat_backward, overflow_checks) ==
    /\ pc = "xml_elems"
    /\ LET r == RemoveIncompleteVoicesResult(measure, voices,
                    measure_checker.quarter_division,
                    BeatsAsU32(measure_checker.beats),
                    BeatTypeAsU32(measure_checker.beat_type), overflow_checks)
       IN IF r.panic
          THEN PartPanics
          ELSE /\ complete_part' =
                      Append(complete_part \o r.measure,
                             MeasureMetaData(IF repeat_backward THEN 3 ELSE 1, 0, 0))
               /\ measure' = <<>>
               /\ pc' = "xml_measure"
               /\ UNCHANGED <<codec_vars, divisions, voices, sig, tmod, note, ticks,
                              found, part_vars>>

\* after the measures of a part: push_part, or remove_part for a part with
\* an unpitched note
XmlPartEnd ==
    /\ pc \in {"xml_measure", "xml_break"}
    /\ LET ir_part_str == XmlPartIds[ir_part_idx + 1]
       IN IF ~remove_cur_part
          THEN /\ parts' = Append(parts, complete_part)
               /\ part_ids' = [part_ids EXCEPT ![ir_part_str] = Len(parts)]
               /\ UNCHANGED remove_cur_part
          ELSE /\ part_ids' = [part_ids EXCEPT ![ir_part_str] = None]
               /\ remove_cur_part' = FALSE
               /\ UNCHANGED parts
    /\ ir_part_idx' = ir_part_idx + 1
    /\ pc' = "xml_part"
    /\ UNCHANGED <<complete_part, codec_vars, ir_vars, cur_init_measure_idx,
                   measure_checker, res, flushes, cur_phrase_dyn>>

\* after the last part: Ok(ir_part_map)
XmlReturn ==
    /\ pc = "xml_part"
    /\ ir_part_idx = Cardinality(DOMAIN part_ids)
    /\ pc' = "xml_done"
    /\ UNCHANGED <<complete_part, codec_vars, ir_vars, part_vars>>

\* the contents of the tags
NoTag == [some |-> FALSE]
XmlTimes == {NoTag, [some |-> TRUE, beats |-> 1, beat_type |-> 1]}
XmlFifths == {None, 1}
XmlTempos == {NoTag, [some |-> TRUE, tempo |-> TempoNewFromRaw(40)]}
XmlNoteTypes == {5}
XmlTuplets == {"none"}
XmlDynamics == {None, 12}
XmlForwards == {0}
XmlRepeats == {FALSE}

NextXml ==
    \/ \E n \in 0..MaxXmlParts : XmlScoreParts(n)
    \/ XmlPartBegin
    \/ \E time \in XmlTimes, fifths \in XmlFifths, tempo \in XmlTempos,
          repeat_forward \in XmlRepeats, forward_duration \in XmlForwards :
          XmlMeasureHead(2, time, fifths, tempo, repeat_forward, forward_duration)
    \/ \E voice_num \in VoiceNums, t \in XmlNoteTypes, tuplet \in XmlTuplets :
          XmlNote(voice_num, t, tuplet)
    \/ XmlUnpitchedNote
    \/ \E dyn \in XmlDynamics : XmlDirection(dyn)
    \/ \E c \in BOOLEAN : XmlBackup(2, c)
    \/ \E b \in XmlRepeats, c \in BOOLEAN : XmlMeasureEnd(b, c)
    \/ XmlPartEnd
    \/ XmlReturn

SpecXml == InitXml /\ [][NextXml]_vars

-----------------------------------------------------------------------------
(* Tempo: a real tempo or a raw value made a Tempo, and read back *)

MaxRealTempo == 300

MAX_SUPPORTED_REAL_TEMPO == 274
MIN_SUPPORTED_REAL_TEMPO == 20

\* Tempo::new without the clamp to the supported real tempos; as u8 keeps
\* the low 8 bits
TempoNewUnclamped(real_tempo) == [raw |-> ((real_tempo - 20) \div 2) % 256]

\* Tempo::new and From<i32> for Tempo; assign_tempo - 20 is never negative,
\* so the division of i32 rounds as \div does
TempoNew(real_tempo) ==
    LET assign_tempo == IF real_tempo > MAX_SUPPORTED_REAL_TEMPO
                        THEN MAX_SUPPORTED_REAL_TEMPO
                        ELSE IF real_tempo < MIN_SUPPORTED_REAL_TEMPO
                        THEN MIN_SUPPORTED_REAL_TEMPO
                        ELSE real_tempo
    IN [raw |-> ((assign_tempo - 20) \div 2) % 256]

\* ticks is the number given: a real tempo, or a raw value when it is a u8
InitTempo ==
    /\ pc = "tempo"
    /\ complete_part = <<>>
    /\ CodecIdle
    /\ PartIdle
    /\ divisions = None
    /\ voices = {}
    /\ sig = DefaultSig
    /\ tmod = NoTimeModification
    /\ note = NoteDataDefault
    /\ ticks \in (0 - 2)..MaxRealTempo
    /\ found = NotFound
    /\ measure = <<>>

\* Tempo::new(ticks), kept in a MeasureInitializer
TempoFromReal ==
    /\ pc = "tempo"
    /\ complete_part' = <<MeasureInitializer(2, 1, 0, TempoNew(ticks))>>
    /\ pc' = "tempo_real"
    /\ UNCHANGED <<codec_vars, ir_vars, part_vars>>

\* Tempo::new_from_raw(ticks)
TempoFromRaw ==
    /\ pc = "tempo"
    /\ ticks \in 0..255
    /\ complete_part' = <<MeasureInitializer(2, 1, 0, TempoNewFromRaw(ticks))>>
    /\ pc' = "tempo_raw"
    /\ UNCHANGED <<codec_vars, ir_vars, part_vars>>

\* get_actual of the tempo, and Tempo::new of what it gives
TempoActualAndBack ==
    /\ pc \in {"tempo_real", "tempo_raw"}
    /\ ticks' = TempoGetActual(complete_part[1].tempo)
    /\ complete_part' = Append(complete_part,
                               MeasureInitializer(2, 1, 0, TempoNew(ticks')))
    /\ pc' = "tempo_back"
    /\ UNCHANGED <<codec_vars, divisions, voices, sig, tmod, note, found, measure,
                   part_vars>>

NextTempo ==
    \/ TempoFromReal
    \/ TempoFromRaw
    \/ TempoActualAndBack

SpecTempo == InitTempo /\ [][NextTempo]_vars

-----------------------------------------------------------------------------
(* An open measure of a part: its buffer is conformed to backups, then the   *)
(* measure is closed                                                         *)

MaxBufLen == 3

\* what push_measure_elem has put into the buffer: notes of voices One and
\* Two, a chord note, and the markers of a tuplet of 3 in the time of 2
BufElems ==
    {[NoteDataDefault EXCEPT !.note_rest = Pitch(65)],
     [NoteDataDefault EXCEPT !.note_rest = Pitch(65), !.note_type = 6],
     [NoteDataDefault EXCEPT !.note_rest = Pitch(65), !.voice = 1],
     [NoteDataDefault EXCEPT !.note_rest = Pitch(65), !.note_type = 4, !.voice = 1],
     [NoteDataDefault EXCEPT !.note_rest = Pitch(65), !.chord = 1],
     TupletData(1, 0, TupletActualTryFrom(3), TupletNormalTryFrom(2), FALSE),
     TupletData(2, 0, TupletActualTryFrom(3), TupletNormalTryFrom(2), FALSE)}

Buffers ==
    UNION {[1..n -> BufElems] : n \in 0..MaxBufLen}

\* a part after push_init_measure and push_meta_start, elements pushed into
\* the measure and backups met: the buffer holds any elements, the counter any
\* number of the last of them
InitBuffer ==
    /\ pc = "buffer"
    /\ complete_part = <<MeasureInitializer(2, 1, 0, DefaultTempo), MeasureMetaData(0, 0, 0)>>
    /\ CodecIdle
    /\ divisions = 2
    /\ voices \in {{1}, {1, 2}}
    /\ sig = DefaultSig
    /\ tmod = NoTimeModification
    /\ note = NoteDataDefault
    /\ ticks = 0
    /\ found = NotFound
    /\ measure \in Buffers
    /\ cur_init_measure_idx = 0
    /\ measure_checker \in
          {[some |-> TRUE, elems_since_backup |-> k, quarter_division |-> 2,
            beats |-> 2, beat_type |-> 1, forward_duration |-> f] :
              k \in 0..Len(measure), f \in {0, 2}}
    /\ part_ids = <<>>
    /\ parts = <<>>
    /\ remove_cur_part = FALSE
    /\ res = Ok(0)
    /\ flushes = 0
    /\ cur_phrase_dyn = None
    /\ ir_part_idx = 0

\* MusicalPart::update_backup_duration(duration_val) on the open measure
ConformBuffer(duration_val, overflow_checks) ==
    /\ pc = "buffer"
    /\ LET r == ConformBackupPlaceholderRests(measure, measure_checker,
                                              duration_val, overflow_checks)
       IN IF r.panic
          THEN PartPanics
          ELSE /\ measure' = r.measure
               /\ measure_checker' = [measure_checker EXCEPT !.elems_since_backup = 0]
               /\ UNCHANGED <<pc, complete_part, codec_vars, divisions, voices, sig,
                              tmod, note, ticks, found, cur_init_measure_idx,
                              part_ids, parts, remove_cur_part, res, flushes,
                              cur_phrase_dyn, ir_part_idx>>

\* MusicalPart::push_meta_end(meta_end) on the open measure
CloseBuffer(meta_end, overflow_checks) ==
    /\ pc = "buffer"
    /\ LET r == RemoveIncompleteVoicesResult(measure, voices,
                    measure_checker.quarter_division,
                    BeatsAsU32(measure_checker.beats),
                    BeatTypeAsU32(measure_checker.beat_type), overflow_checks)
       IN IF r.panic
          THEN PartPanics
          ELSE /\ complete_part' = Append(complete_part \o r.measure, meta_end)
               /\ measure' = <<>>
               /\ pc' = "buffer_closed"
               /\ UNCHANGED <<codec_vars, divisions, voices, sig, tmod, note, ticks,
                              found, part_vars>>

NextBuffer ==
    \/ \E d \in {0, 2, 4}, c \in BOOLEAN : ConformBuffer(d, c)
    \/ \E c \in BOOLEAN : CloseBuffer(MeasureMetaData(1, 0, 0), c)

SpecBuffer == InitBuffer /\ [][NextBuffer]_vars

-----------------------------------------------------------------------------
(* PartMap: get_part, and the calls made after a populated part was removed  *)

\* PartMap::get_part(idx) on the parts ps: Some(part) for an index of ps
GetPart(ps, idx) ==
    IF idx >= 0 /\ idx < Len(ps) THEN [some |-> TRUE, part |-> ps[idx + 1]]
    ELSE [some |-> FALSE, part |-> <<>>]

\* add_part_id("P1"), push_part("P1", p), remove_part("P1"), with "P2"
\* reserved or not
InitTombstone ==
    /\ pc = "part_map"
    /\ complete_part = <<>>
    /\ CodecIdle
    /\ IrIdle
    /\ cur_init_measure_idx = None
    /\ measure_checker = NoMeasureChecker
    /\ part_ids \in {("P1" :> None), ("P1" :> None) @@ ("P2" :> None)}
    /\ parts \in {<<p>> : p \in PartSamples}
    /\ remove_cur_part = FALSE
    /\ res = Ok(0)
    /\ flushes = 0
    /\ cur_phrase_dyn = None
    /\ ir_part_idx = 0

SpecTombstone == InitTombstone /\ [][NextPartMap]_vars

-----------------------------------------------------------------------------
(* The binary codec: claims C1 .. C5 *)

\* C1 (as stated): encoding any sequence of in-range elements with ir_to_bin
\* and parsing the bytes written returns exactly the original sequence.
C1_EncodeDecodeRoundTrip ==
    (pc = "parsed" /\ data = IrToBinBytes(complete_part))
        => parsed = Decoded(complete_part)

\* C2 (amended): for every stream parse_data accepts, re-encoding the parsed
\* elements gives the stream's canonical form: the magic number, the length
\* field 4 * (number of elements), and every record with its field bits
\* unchanged and its reserved bits cleared.
C2_DecodeEncodeCanonical ==
    LET Rec(bytes, i) == SubSeq(bytes, 8 + 4 * (i - 1) + 1, 8 + 4 * i)
        Tag(rec) == TakeBits(rec, 0, 2)
        ClearReserved(rec) ==
            CASE Tag(rec) = 0 -> SetBitRange(rec, 18, 31, 0)
              [] Tag(rec) = 1 -> SetBitRange(rec, 9, 31, 0)
              [] Tag(rec) = 2 -> rec
              [] Tag(rec) = 3 -> SetBitRange(rec, 15, 31, 0)
    IN (pc = "written" /\ parsed.ok) =>
          /\ Len(w) = Len(data)
          /\ SubSeq(w, 1, 4) = SubSeq(data, 1, 4)
          /\ FromLeBytes(SubSeq(w, 5, 8)) = 4 * Len(parsed.elements)
          /\ \A i \in 1..Len(parsed.elements) :
                 Rec(w, i) = ClearReserved(Rec(data, i))

\* C2 witness: an accepted stream of two records was re-encoded, and the
\* bytes written differ from the bytes read
C2_Witness ==
    /\ pc = "written" /\ parsed.ok
    /\ Len(parsed.elements) = 2
    /\ w # data

\* C2 (as stated): for every stream parse_data accepts, re-encoding the
\* parsed elements reproduces the original bytes exactly.
C2_DecodeEncodeRoundTrip ==
    (pc = "written" /\ parsed.ok) => w = data

\* C3 (as stated): for every stream parse_data accepts, the header's length
\* field equals exactly 4 times the number of elements returned.
C3_HeaderLengthExact ==
    (pc = "parsed" /\ parsed.ok /\ Len(data) >= 8)
        => FromLeBytes(SubSeq(data, 5, 8)) = 4 * Len(parsed.elements)

\* C4: parse_data fails, returning no element list, when the input is shorter
\* than the 8-byte header, when its first four bytes are not the magic
\* number, or when it ends inside a 4-byte record.
C4_DecodeTermination ==
    pc = "parsed" =>
        ((\/ Len(data) < 8
          \/ SubSeq(data, 1, 4) # MUSICBIN_MAGIC_NUMBER
          \/ Len(data) % 4 # 0) => parsed = DecodingError)

\* C4 witness: a stream whose header and first record parse, cut inside its
\* second record, was rejected
C4_Witness ==
    /\ pc = "parsed"
    /\ Len(data) \in 13..15
    /\ ParseData(SubSeq(data, 1, 12)).ok
    /\ parsed = DecodingError

\* C5 (as stated): no stream with a record carrying an out-of-range field
\* (beats = 7, key_sig in 12..15, phrase_dynamics = 15, trill, ties, slur or
\* tuplet start_stop = 3, normal_notes in 9..15, pitch in 98..127) decodes
\* successfully.
C5_RejectsOutOfRange ==
    LET Rec(i) == SubSeq(data, 8 + 4 * (i - 1) + 1, 8 + 4 * i)
        Tag(rec) == TakeBits(rec, 0, 2)
        Illegal(rec) ==
            CASE Tag(rec) = 0 -> \/ TakeBits(rec, 2, 3) = 7
                                 \/ TakeBits(rec, 7, 4) \in 12..15
              [] Tag(rec) = 1 -> FALSE
              [] Tag(rec) = 2 -> \/ TakeBits(rec, 2, 7) \in 98..127
                                 \/ TakeBits(rec, 9, 4) = 15
                                 \/ TakeBits(rec, 23, 2) = 3
                                 \/ TakeBits(rec, 25, 2) = 3
                                 \/ TakeBits(rec, 28, 2) = 3
              [] Tag(rec) = 3 -> \/ TakeBits(rec, 2, 2) = 3
                                 \/ TakeBits(rec, 10, 4) \in 9..15
    IN (pc = "parsed" /\ Len(data) >= 8 /\ Len(data) % 4 = 0) =>
          ((\E i \in 1..((Len(data) - 8) \div 4) : Illegal(Rec(i))) => ~parsed.ok)

-----------------------------------------------------------------------------
(* Duration arithmetic: claims C7, C8, C10 *)

\* C7 (as stated): for a rhythm type and dotted flag, with no time
\* modification, whose tick count at the given divisions is exact,
\* from_numeric_duration of that tick count returns the same rhythm type and
\* dotted flag with no time modification.  (Whole-note rests, whose tick
\* count follows the time signature, are left out.)
C7_DurationInverse ==
    (/\ pc = "dur_note_found"
     /\ note.special_note = 0
     /\ ~tmod.some
     /\ ~(note.note_type = 7 /\ note.note_rest = Rest)
     /\ DurationIsExact(note, divisions, BeatsAsU32(sig.beats),
                        BeatTypeAsU32(sig.beat_type), tmod))
        => found = FoundSome(note.note_type, note.dotted, NoTimeModification)

\* C8 (as stated): from_numeric_duration returns None exactly when no rhythm
\* type, dotted form and legal tuplet ratio gives the tick count exactly, and
\* whenever it returns Some((rhythm_type, dotted, time_mod)) the duration of
\* that rhythm type with that dot and ratio equals the tick count.
C8_NoneIffUnrepresentable ==
    LET AsNote(t, d) == [NoteDataDefault EXCEPT !.note_rest = Pitch(65),
                                                !.note_type = t, !.dotted = d]
        Ratios == {NoTimeModification} \cup
                  {TimeModification(a, n) : a \in 0..(TupletActualCount - 1),
                                            n \in 0..(TupletNormalCount - 1)}
        Representable ==
            \E t \in 0..(RhythmTypeCount - 1), d \in BOOLEAN, tm \in Ratios :
                /\ DurationIsExact(AsNote(t, d), divisions, 4, 4, tm)
                /\ GetDurationNumeric(AsNote(t, d), divisions, 4, 4, tm) = ticks
    IN pc \in {"dur_found", "dur_note_found"} =>
          /\ found.kind = "Some" =>
                GetDurationNumeric(AsNote(found.note_type, found.dotted),
                                   divisions, 4, 4, found.time_mod) = ticks
          /\ (found.kind = "None") <=> ~Representable

\* C10 (as stated): the duration of an undotted, unmodified whole-note rest is
\* divisions * beats * 4 / beat_type, and that of a whole-note pitch is
\* divisions * 4 whatever the time signature.
C10_WholeNoteAsymmetry ==
    (/\ pc = "dur_note_ticks"
     /\ note.note_type = 7 /\ ~note.dotted /\ ~tmod.some /\ note.special_note = 0)
        => ticks = IF note.note_rest = Rest
                   THEN (divisions * BeatsAsU32(sig.beats) * 4)
                            \div BeatTypeAsU32(sig.beat_type)
                   ELSE divisions * 4

-----------------------------------------------------------------------------
(* Divisions of a part: claim C9 *)

\* C9 (as stated): at the divisions update_divisions_voices computes, every
\* duration-bearing note of the part has a duration that is a whole number of
\* ticks, whole-note rests under the time signature in force included.
C9_ResolutionGuarantee ==
    (pc = "piece_note" /\ note.special_note = 0)
        => DurationIsExact(note, divisions, BeatsAsU32(sig.beats),
                           BeatTypeAsU32(sig.beat_type), tmod)

-----------------------------------------------------------------------------
(* MeasureChecker: claim C6 *)

\* C6 (as stated): after remove_incomplete_voices has run on a measure, every
\* voice whose total duration (over its non-chord, non-grace notes, each
\* under the tuplet ratio in force) is nonzero has the total duration of
\* voice 0.
C6_VoiceEqualization ==
    LET st == ScanVoices(measure, 0, divisions, BeatsAsU32(sig.beats),
                         BeatTypeAsU32(sig.beat_type),
                         [voice_durations |-> <<0, 0, 0, 0>>,
                          voice_last_idx |-> <<0, 0, 0, 0>>,
                          time_mod |-> NoTimeModification,
                          prev_voice |-> 0,
                          underflow |-> FALSE])
    IN pc = "measure_closed" =>
          \A v \in 1..VoiceCount :
              st.voice_durations[v] # 0 => st.voice_durations[v] = st.voice_durations[1]

-----------------------------------------------------------------------------
(* The record layouts: claims C18, C19, C20 *)

\* C18 (amended): a Tuplet record is laid out MSB-first as id(2),
\* start_stop(2), tuplet_number(2), actual_notes(4), normal_notes(4),
\* dotted(1), reserved(17): parse_tuplet_data reads every field at these bit
\* positions and insert_tuplet_data writes it there, the reserved bits zero.
C18_TupletLayoutTwoBitNumber ==
    LET Rec(bytes, i) == SubSeq(bytes, 8 + 4 * (i - 1) + 1, 8 + 4 * i)
        Read(rec) == TupletData(TakeBits(rec, 2, 2), TakeBits(rec, 4, 2),
                                TakeBits(rec, 6, 4), TakeBits(rec, 10, 4),
                                TakeBits(rec, 14, 1) = 1)
    IN (pc \in {"parsed", "written"} /\ parsed.ok) =>
          \A i \in 1..Len(parsed.elements) :
              TakeBits(Rec(data, i), 0, 2) = 3 =>
                  /\ parsed.elements[i] = Read(Rec(data, i))
                  /\ pc = "written" =>
                        /\ Read(Rec(w, i)) = parsed.elements[i]
                        /\ TakeBits(Rec(w, i), 0, 2) = 3
                        /\ \A b \in 15..31 : BitAt(Rec(w, i), b) = 0

\* C18 witness: a stream whose last record is a Tuplet with tuplet_number
\* Four (3) and nothing else set but start_stop was decoded and re-encoded
C18_Witness ==
    /\ pc = "written" /\ parsed.ok
    /\ Len(parsed.elements) >= 1
    /\ parsed.elements[Len(parsed.elements)] = TupletData(1, 3, 1, 1, FALSE)
    /\ LastRecord(data) = <<220, 68, 0, 0>>
    /\ LastRecord(w) = <<220, 68, 0, 0>>

\* C18 (as stated): a Tuplet record is laid out MSB-first as id(2),
\* start_stop(2), tuplet_number(3), actual_notes(4), normal_notes(4),
\* dotted(1), reserved(16), and the decoder reads and the encoder writes
\* every field at these bit positions.
C18_TupletLayoutAsStated ==
    LET Rec(bytes, i) == SubSeq(bytes, 8 + 4 * (i - 1) + 1, 8 + 4 * i)
        Read(rec) == TupletData(TakeBits(rec, 2, 2), TakeBits(rec, 4, 3),
                                TakeBits(rec, 7, 4), TakeBits(rec, 11, 4),
                                TakeBits(rec, 15, 1) = 1)
    IN (pc \in {"parsed", "written"} /\ parsed.ok) =>
          \A i \in 1..Len(parsed.elements) :
              TakeBits(Rec(data, i), 0, 2) = 3 =>
                  /\ parsed.elements[i] = Read(Rec(data, i))
                  /\ pc = "written" => Read(Rec(w, i)) = parsed.elements[i]

\* C19: a record whose first two bits are 00 decodes as a MeasureInitializer
\* (beats bits 2-4, beat_type 5-6, key_sig 7-10, tempo 11-17) and one whose
\* first two bits are 01 as a MeasureMetaData (start_end 2-3, ending 4-5,
\* dal_segno 6-8), whatever the reserved bits hold; 4e 00 00 00 decodes to
\* MeasureMeta{MeasureStart, ending Three, DaCapo} and 12 0c 80 00 to
\* MeasureInit{beats Four, beat_type Four, CMajorAminor, tempo 120 BPM}.
C19_InitMetaLayout ==
    LET Rec(i) == SubSeq(data, 8 + 4 * (i - 1) + 1, 8 + 4 * i)
        e(i) == parsed.elements[i]
    IN (pc = "parsed" /\ parsed.ok) =>
          \A i \in 1..Len(parsed.elements) :
              /\ TakeBits(Rec(i), 0, 2) = 0 =>
                    /\ e(i).elem = "MeasureInit"
                    /\ e(i).beats = TakeBits(Rec(i), 2, 3)
                    /\ e(i).beat_type = TakeBits(Rec(i), 5, 2)
                    /\ e(i).key_sig = TakeBits(Rec(i), 7, 4)
                    /\ TempoGetRaw(e(i).tempo) = TakeBits(Rec(i), 11, 7)
              /\ TakeBits(Rec(i), 0, 2) = 1 =>
                    /\ e(i).elem = "MeasureMeta"
                    /\ e(i).start_end = TakeBits(Rec(i), 2, 2)
                    /\ e(i).ending = TakeBits(Rec(i), 4, 2)
                    /\ e(i).dal_segno = TakeBits(Rec(i), 6, 3)
              /\ Rec(i) = <<78, 0, 0, 0>> => e(i) = MeasureMetaData(0, 3, 4)
              /\ Rec(i) = <<18, 12, 128, 0>> =>
                    /\ e(i).elem = "MeasureInit"
                    /\ BeatsAsU32(e(i).beats) = 4
                    /\ BeatTypeAsU32(e(i).beat_type) = 4
                    /\ e(i).key_sig = 0
                    /\ TempoGetActual(e(i).tempo) = 120

\* C19 witness: a MeasureMetaData record with a reserved bit set followed by
\* the record 12 0c 80 00 was decoded
C19_Witness ==
    /\ pc = "parsed" /\ parsed.ok
    /\ Body(data) = <<78, 0, 0, 1, 18, 12, 128, 0>>
    /\ parsed.elements[1] = MeasureMetaData(0, 3, 4)
    /\ parsed.elements[2] = MeasureInitializer(2, 1, 0, TempoNewFromRaw(50))

-----------------------------------------------------------------------------
(* The writer: claim C17 *)

\* C17 (as stated): on every exit path of ir_to_bin, the success path and the
\* paths where writing the header or a record fails, MusicEncoder::flush has
\* been called exactly once.
C17_FlushOncePerStream ==
    pc \in {"enc_ok", "enc_err"} => flushes = 1

-----------------------------------------------------------------------------
(* PartMap: claim C16 *)

\* C16: add_part_id on an unknown id reserves it with no content, and
\* push_part on an id that is unknown or without content populates it with
\* the index of the pushed part; push_part on a populated id, and add_part_id
\* on a known id, return ItemExists and leave part_ids and parts unchanged.
C16_PopulateOnce ==
    [][/\ \A k \in PartKeys, p \in PartSamples :
             PushPart(k, p) =>
                 IF k \in DOMAIN part_ids /\ part_ids[k] # None
                 THEN res' = Err("ItemExists") /\ part_ids' = part_ids /\ parts' = parts
                 ELSE /\ res'.ok
                      /\ parts' = Append(parts, p)
                      /\ part_ids'[k] = Len(parts')  - 1
                      /\ \A o \in DOMAIN part_ids \ {k} : part_ids'[o] = part_ids[o]
       /\ \A k \in PartKeys :
             AddPartId(k) =>
                 IF k \in DOMAIN part_ids
                 THEN res' = Err("ItemExists") /\ part_ids' = part_ids /\ parts' = parts
                 ELSE /\ res'.ok
                      /\ DOMAIN part_ids' = DOMAIN part_ids \cup {k}
                      /\ part_ids'[k] = None
                      /\ parts' = parts
                      /\ \A o \in DOMAIN part_ids : part_ids'[o] = part_ids[o]
      ]_vars

\* C16 witness: a call was refused with ItemExists while P1 is populated and
\* P2 is reserved without content
C16_Witness ==
    /\ pc = "part_map"
    /\ res = Err("ItemExists")
    /\ DOMAIN part_ids = {"P1", "P2"}
    /\ part_ids["P1"] = 0
    /\ part_ids["P2"] = None
    /\ Len(parts) = 1

\* C11: every insert_new_voice call leaves at most 4 distinct ids in the voice
\* set; a call with a 5th distinct id returns an error and leaves the set as it
\* was; a call with an id of the set returns Ok with the id's position
C11_VoiceBound ==
    [][\A voice_num \in VoiceNums :
         InsertNewVoice(voice_num) =>
           /\ Cardinality(voices') <= 4
           /\ (voice_num \notin voices /\ Cardinality(voices) = 4
                 => ~res'.ok /\ voices' = voices)
           /\ (voice_num \in voices
                 => /\ voices' = voices
                    /\ res' = Ok(Cardinality({x \in voices : x < voice_num})))]_vars

\* a fifth id was refused after an id of the full set was inserted again
C11_Witness ==
    /\ pc = "part"
    /\ voices = {1, 2, 3, 5}
    /\ res = Err("OutofBounds")
    /\ complete_part = <<>>


\* C13: in the elements of a part whose calls were all accepted, the
\* MeasureMeta records alternate start kind (MeasureStart, RepeatStart) and end
\* kind (MeasureEnd, RepeatEnd), the first being a start, and every note or
\* tuplet record lies after a start and before its end
C13_MeasureBracketing ==
    pc = "part" =>
      \A i \in 1..Len(complete_part) :
         LET e == complete_part[i]
             metas_before == Cardinality({j \in 1..(i - 1) :
                                            complete_part[j].elem = "MeasureMeta"})
         IN /\ e.elem = "MeasureMeta" =>
                 ((e.start_end \in {0, 2}) <=> (metas_before % 2 = 0))
            /\ e.elem \in {"NoteRest", "Tuplet"} => metas_before % 2 = 1

\* C12: a part in which insert_new_voice failed with the too-many-voices
\* error is discarded: once its assembly has finished, its id has no part in
\* the PartMap
C12_TooManyVoicesDiscardsPart ==
    (pc = "xml_part" /\ ir_part_idx > 0 /\ res = Err("OutofBounds"))
      => part_ids[XmlPartIds[ir_part_idx]] = None

\* C14: when the assembly of a part has finished, kept or discarded, every
\* measure opened with push_meta_start was closed with push_meta_end
C14_EveryMeasureClosed ==
    (pc = "xml_part" /\ ir_part_idx > 0) =>
      Cardinality({i \in 1..Len(complete_part) :
                     /\ complete_part[i].elem = "MeasureMeta"
                     /\ complete_part[i].start_end \in {0, 2}})
        = Cardinality({i \in 1..Len(complete_part) :
                         /\ complete_part[i].elem = "MeasureMeta"
                         /\ complete_part[i].start_end \in {1, 3}})

\* C15: in the part being assembled and in the parts of the map, a MeasureInit
\* comes first, and every later MeasureInit differs from the MeasureInit
\* before it: one is appended for the first measure or for a change only
C15_InitializerDedup ==
    \A elems \in {complete_part} \cup {parts[k] : k \in 1..Len(parts)} :
       /\ elems # <<>> => elems[1].elem = "MeasureInit"
       /\ \A i, j \in 1..Len(elems) :
             (/\ i < j
              /\ elems[i].elem = "MeasureInit"
              /\ elems[j].elem = "MeasureInit"
              /\ \A k \in (i + 1)..(j - 1) : elems[k].elem # "MeasureInit")
               => elems[i] # elems[j]

\* the third measure of a part begins: the second had the initializer of the
\* first and none was appended, the third has another and one was
C15_Witness ==
    /\ pc = "xml_elems"
    /\ Len(complete_part) = 7
    /\ {i \in 1..7 : complete_part[i].elem = "MeasureInit"} = {1, 6}
    /\ {i \in 1..7 : complete_part[i].elem = "MeasureMeta"} = {2, 3, 4, 5, 7}

\* C21: a real tempo is stored as raw = (clamp(real, 20, 274) - 20) div 2,
\* which lies in 0..127 (real 30 as raw 5); a raw value above 127 is stored as
\* 127; the real tempo read is raw * 2 + 20, and making a Tempo of it gives
\* the same raw again
C21_TempoMapping ==
    LET Clamp(real) == IF real > 274 THEN 274 ELSE IF real < 20 THEN 20 ELSE real
    IN /\ pc = "tempo_real" =>
            /\ complete_part[1].tempo.raw = (Clamp(ticks) - 20) \div 2
            /\ complete_part[1].tempo.raw \in 0..127
            /\ ticks = 30 => complete_part[1].tempo.raw = 5
       /\ pc = "tempo_raw" =>
            complete_part[1].tempo.raw = (IF ticks > 127 THEN 127 ELSE ticks)
       /\ pc = "tempo_back" =>
            /\ ticks = complete_part[1].tempo.raw * 2 + 20
            /\ complete_part[2].tempo.raw = complete_part[1].tempo.raw

\* the raw value 127, which real tempos above 274 are stored as, read back
\* as 274 and stored as 127 again
C21_Witness ==
    /\ pc = "tempo_back"
    /\ ticks = 274
    /\ complete_part[1].tempo.raw = 127
    /\ complete_part[2].tempo.raw = 127

\* C22: update_backup_duration with a target (the backup duration less the
\* forward duration) below the summed duration of the non-chord notes pushed
\* since the last backup appends exactly one rest, whose duration is the sum
\* less the target and whose voice follows the voice of the last of these
\* notes; with a target not below the sum the buffer is unchanged; the
\* since-backup counter is 0 afterwards
C22_BackupPlaceholderRest ==
    [][\A d \in {0, 2, 4}, c \in BOOLEAN :
         (/\ ConformBuffer(d, c)
          /\ pc' = "buffer"
          /\ d >= measure_checker.forward_duration)
           => LET target == d - measure_checker.forward_duration
                  t == DurationSinceBackup(measure,
                           Len(measure) - measure_checker.elems_since_backup,
                           measure_checker, NoTimeModification,
                           [sum |-> 0, current_voice |-> 0])
                  rest == measure'[Len(measure')]
              IN /\ measure_checker'.elems_since_backup = 0
                 /\ t.sum <= target => measure' = measure
                 /\ t.sum > target =>
                      /\ measure' = Append(measure, rest)
                      /\ rest.elem = "NoteRest"
                      /\ rest.note_rest = Rest
                      /\ rest.voice = (t.current_voice + 1) % 4
                      /\ GetDurationNumeric(rest, measure_checker.quarter_division,
                             BeatsAsU32(measure_checker.beats),
                             BeatTypeAsU32(measure_checker.beat_type),
                             NoTimeModification) = t.sum - target]_vars

\* whether an element is a rest such as NoteData::new_default_rest makes
IsSynthesizedRest(e) ==
    e.elem = "NoteRest" /\ e.note_rest = Rest

\* whether after is before with rests put in: every element of before is in
\* after, as it was and in the same order, and what else after holds are rests
RECURSIVE OnlyRestsAdded(_, _)
OnlyRestsAdded(before, after) ==
    IF after = <<>> THEN before = <<>>
    ELSE IF before # <<>> /\ Head(after) = Head(before)
    THEN OnlyRestsAdded(Tail(before), Tail(after))
    ELSE IsSynthesizedRest(Head(after)) /\ OnlyRestsAdded(before, Tail(after))

C26_NoRestInsideTuplet ==
    \A elems \in {measure, complete_part} :
       \A j \in 1..Len(elems) :
          IsSynthesizedRest(elems[j]) =>
             ~\E i \in 1..(j - 1) :
                 /\ elems[i].elem = "Tuplet"
                 /\ elems[i].start_stop = 1
                 /\ \A k \in (i + 1)..(j - 1) : elems[k].elem # "Tuplet"

\* C28: update_backup_duration with a backup duration below the forward
\* duration of the measure does not fail, and neither does push_meta_end on a
\* buffer whose first note has a voice above voice One
C28_NoUnderflowFailure ==
    [][/\ \A d \in {0, 2, 4}, c \in BOOLEAN :
            (ConformBuffer(d, c) /\ d < measure_checker.forward_duration)
              => pc' # "part_panic"
       /\ \A c \in BOOLEAN :
            (/\ CloseBuffer(MeasureMetaData(1, 0, 0), c)
             /\ measure # <<>>
             /\ measure[1].elem = "NoteRest"
             /\ measure[1].voice > 0)
              => pc' # "part_panic"]_vars


\* C27: in every state a MusicalPart reaches through its calls, the
\* since-backup counter of its MeasureChecker is at most the length of the
\* checker's buffer, after push_meta_end has handed the buffer off as well
C27_CounterWithinBuffer ==
    (pc = "part" /\ measure_checker.some) =>
        measure_checker.elems_since_backup <= Len(measure)


\* C29: the divisions handed to the MeasureChecker of every measure of a
\* part are the divisions the first measure of the part declares (2 in the
\* documents read here), the same nonzero value for measure 0 and for every
\* later measure
C29_DivisionsSameEveryMeasure ==
    (pc \in {"xml_elems", "xml_measure"} /\ measure_checker.some) =>
        /\ measure_checker.quarter_division # 0
        /\ measure_checker.quarter_division = 2


-----------------------------------------------------------------------------
(* PartMap: claims C24 and C30 *)

\* C24: after remove_part(key) on a populated part the key has no index and
\* get_part returns no part at the index the key had, nor the content of the
\* removed part at any index
C24_RemovedPartAbsent ==
    [][\A k \in PartKeys :
          (k \in DOMAIN part_ids /\ part_ids[k] # None /\ RemovePart(k)) =>
              /\ part_ids'[k] = None
              /\ ~GetPart(parts', part_ids[k]).some
              /\ \A i \in 0..MaxParts :
                     GetPart(parts', i).some =>
                         GetPart(parts', i).part # GetPart(parts, part_ids[k]).part
      ]_vars

\* C30: once remove_part was called on the id P1, P1 is never populated
\* again: a push_part on P1 returns an error and leaves part_ids and parts
\* as they are
C30_TombstoneFinal ==
    [][/\ part_ids'["P1"] = None
       /\ \A p \in PartSamples :
              PushPart("P1", p) =>
                  ~res'.ok /\ parts' = parts /\ part_ids' = part_ids
      ]_vars


-----------------------------------------------------------------------------
(* from_numeric_duration: claim C23 *)

\* C23: from_numeric_duration never fails on a ratio it cannot build, for
\* any tick count and divisions; a time modification it returns has its
\* normal notes among 2, 3, 4, 6, 8, 9, 12, 16 and its actual notes among
\* 2..11, 13, 15, 16, 17, 18, 21, 25, and is the first pair of that ratio in
\* ascending normal, then ascending actual order
C23_TupletSearchRepresentable ==
    (pc \in {"dur_found", "dur_note_found"}) =>
        /\ found.kind # "panic"
        /\ (found.kind = "Some" /\ found.time_mod.some) =>
              LET nn == TupletNormalAsU32(found.time_mod.normal_notes)
                  an == TupletActualAsU32(found.time_mod.actual_notes)
              IN /\ nn \in {2, 3, 4, 6, 8, 9, 12, 16}
                 /\ an \in ActualCandidates
                 /\ \A n2 \in {2, 3, 4, 6, 8, 9, 12, 16}, a2 \in ActualCandidates :
                        (a2 * nn = an * n2) => (n2 > nn \/ (n2 = nn /\ a2 >= an))

=============================================================================
